---- MODULE Spec2Model ----
(***************************************************************************)
(* The document conversion service: POST /convert (three variants of the   *)
(* handler), POST /convert-excel, the in-process result cache, the per     *)
(* request workspace directories and the HTML asset inliner.               *)
(***************************************************************************)
EXTENDS Integers, Sequences, FiniteSets, TLC

(* ---------------------------------------------------------------------- *)
(* Bounds of the model                                                     *)
(* ---------------------------------------------------------------------- *)
NumReq == 2        \* requests received in one run, in flight together or not
MaxSrcs == 2       \* src attributes of a document given to the inliner
MaxSheets == 3     \* sheets of an uploaded workbook
MaxRmFailures == 1 \* fs.rm calls that fail in one run
MaxOptions == 2    \* properties of a filterOptions object

(* ---------------------------------------------------------------------- *)
(* Program constants                                                       *)
(* ---------------------------------------------------------------------- *)
MAX_CACHE_ITEMS == 20

ALLOWED_EXTENSIONS ==
  {".doc", ".docx", ".odt", ".rtf", ".ppt", ".pptx", ".odp",
   ".xls", ".xlsx", ".ods", ".txt", ".pdf"}

XLSX_NORMALIZE_EXTENSIONS == {".xls", ".xlsx"}

\* The three /convert handlers of the repository.
Variants == {"full", "basic", "noext"}

Req == 1..NumReq

VARIABLES
  variant,    \* which server file is running
  scope,      \* what a run exercises: the request slots in use, the
              \* workbooks XLSX.read can return for its uploads and the
              \* files uploaded to /convert
  inl,        \* a run of the asset inliner alone: its input and its result
  cache,      \* conversionCache: entries in Map iteration (insertion) order
  clock,      \* the last value Date.now() returned
  fs,         \* existing scratch directories: path -> (file name -> bytes)
  uuids,      \* number of crypto.randomUUID() values handed out
  rmFailed,   \* number of fs.rm calls that have failed (all are swallowed)
  pc,         \* per request: the await the handler is suspended at
  rq,         \* per request: the upload and the handler's locals
  resp,       \* per request: the responses sent (status, body), in order
  gh,         \* per request: history of what the handler did
  evicted,    \* history: keys deleted by remember, in order
  ok200       \* history: <<content, body>> of the 200 answers, see BodiesFor

vars == <<variant, scope, inl, cache, clock, fs, uuids, rmFailed, pc, rq, resp, gh,
          evicted, ok200>>

(* ---------------------------------------------------------------------- *)
(* Uploads                                                                 *)
(* ---------------------------------------------------------------------- *)
NoFile == [none |-> TRUE]

\* Extensions as uploaded; path.extname keeps the case of the file name.
UploadExts == {".docx", ".xlsx", ".pdf", ".PDF", ".exe"}

\* String.prototype.toLowerCase on the extensions that occur.
ToLowerCase(s) ==
  CASE s = ".PDF" -> ".pdf"
    [] s = ".XLSX" -> ".xlsx"
    [] s = "OUT.PDF" -> "out.pdf"
    [] OTHER -> s

\* Contents 1..MAX_CACHE_ITEMS are the uploads converted before the run
\* starts (see InitCaches); the others were never uploaded before.
FreshContent(k) == MAX_CACHE_ITEMS + k

\* The bytes of each upload: the hash does not depend on the file name, so
\* some names share their bytes.
ContentOf(ext) ==
  CASE ext = ".docx" -> 1
    [] ext \in {".xlsx", ".exe"} -> FreshContent(1)
    [] OTHER -> FreshContent(2)

Uploads ==
  {[base |-> "report", ext |-> e, content |-> ContentOf(e)] : e \in UploadExts}

\* Every allowed extension, two of them in capitals too, and one that is
\* not allowed.
AllUploadExts == ALLOWED_EXTENSIONS \cup {".PDF", ".XLSX", ".exe"}
AllUploads ==
  {[base |-> "report", ext |-> e, content |-> ContentOf(e)] : e \in AllUploadExts}

OriginalName(f) == f.base \o f.ext
\* path.extname(originalname).toLowerCase()
Extension(f) == ToLowerCase(f.ext)
\* `${path.parse(originalname).name}.pdf`
ExpectedPdfName(f) == f.base \o ".pdf"

\* crypto.createHash("sha256").update(buffer).digest("hex")
Sha256Hex(content) == "sha256:" \o ToString(content)

InputBytes(content) == [kind |-> "upload", of |-> content]

(* ---------------------------------------------------------------------- *)
(* conversionCache                                                         *)
(* ---------------------------------------------------------------------- *)
NoKey == ""

MapHas(c, key) == \E i \in 1..Len(c) : c[i].key = key
MapGet(c, key) == c[CHOOSE i \in 1..Len(c) : c[i].key = key]
\* Mutant: a read moves the entry's createdAt to the time of the read.
AfterMapGetTouch(c, key) ==
  [i \in 1..Len(c) |->
     IF c[i].key = key THEN [c[i] EXCEPT !.createdAt = clock + 1] ELSE c[i]]

\* Map.prototype.get: the map after the call, which is the map before it.
AfterMapGet(c, key) == c

MapDelete(c, key) == SelectSeq(c, LAMBDA e : e.key # key)
\* Mutant: every set adds an entry, the key being there or not.
MapSetAppends(c, key, entry) == Append(c, entry)

\* Map.prototype.set: an existing key keeps its place in iteration order.
MapSet(c, key, entry) ==
  IF MapHas(c, key)
    THEN [i \in 1..Len(c) |-> IF c[i].key = key THEN entry ELSE c[i]]
    ELSE Append(c, entry)

\* The scan of remember: `oldest` is {} for Number.POSITIVE_INFINITY.
RECURSIVE ScanOldest(_, _, _, _)
\* Mutant: `<=` in place of `<`, which keeps the last of the oldest.
ScanOldestLast(c, i, oldest, lruKey) ==
  IF i > Len(c) THEN lruKey
  ELSE IF \A o \in oldest : c[i].createdAt <= o
         THEN ScanOldest(c, i + 1, {c[i].createdAt}, c[i].key)
         ELSE ScanOldest(c, i + 1, oldest, lruKey)

ScanOldest(c, i, oldest, lruKey) ==
  IF i > Len(c) THEN lruKey
  ELSE IF \A o \in oldest : c[i].createdAt < o
         THEN ScanOldest(c, i + 1, {c[i].createdAt}, c[i].key)
         ELSE ScanOldest(c, i + 1, oldest, lruKey)

\* Mutant: `>` in place of `>=`.
CacheFullStrict(c) == Len(c) > MAX_CACHE_ITEMS

CacheFull(c) == Len(c) >= MAX_CACHE_ITEMS

\* What remember deletes: the key, or NoKey when nothing is deleted.
EvictKey(c) ==
  IF CacheFull(c) THEN ScanOldest(c, 1, {}, NoKey) ELSE NoKey

\* Mutant: the entry is stored under the key of no upload.
rememberUnderNoKey(c, hash, buffer, now) ==
  LET c1 == IF EvictKey(c) # NoKey THEN MapDelete(c, EvictKey(c)) ELSE c
  IN  MapSet(c1, NoKey, [key |-> NoKey, buffer |-> buffer, createdAt |-> now])

\* Mutant: the eviction is made, the insertion is not.
rememberForgets(c, hash, buffer, now) ==
  IF EvictKey(c) # NoKey THEN MapDelete(c, EvictKey(c)) ELSE c

remember(c, hash, buffer, now) ==
  LET lruKey == EvictKey(c)
      c1 == IF lruKey # NoKey THEN MapDelete(c, lruKey) ELSE c
  IN  MapSet(c1, hash, [key |-> hash, buffer |-> buffer, createdAt |-> now])

(* ---------------------------------------------------------------------- *)
(* Bytes, bodies, the scratch file system                                  *)
(* ---------------------------------------------------------------------- *)
Text(s) == [kind |-> "text", text |-> s]
\* What one run of the converter writes; no two runs write the same bytes.
Converted(id) == [kind |-> "converted", by |-> id]

NoDir == << >>
NoFiles == << >>
Uuid(n) == "uuid-" \o ToString(n)

\* path.join("/tmp", "converter-service", jobId)
ConvertTmpDir(jobId) == <<"tmp", "converter-service", jobId>>

IsPrefix(p, q) == Len(p) <= Len(q) /\ SubSeq(q, 1, Len(p)) = p
DirExists(f, dir) == dir \in DOMAIN f
\* fs.mkdir(dir, {recursive: true})
Mkdir(f, dir) == IF DirExists(f, dir) THEN f ELSE f @@ (dir :> NoFiles)
\* fs.writeFile(path.join(dir, name), bytes)
WriteFile(f, dir, name, bytes) ==
  [f EXCEPT ![dir] =
     [n \in DOMAIN f[dir] \cup {name} |-> IF n = name THEN bytes ELSE f[dir][n]]]
FileExists(f, dir, name) == DirExists(f, dir) /\ name \in DOMAIN f[dir]
\* Mutant: the directory that holds `dir` is removed, with all in it.
RmTreeOfParent(f, dir) ==
  [d \in {e \in DOMAIN f : ~IsPrefix(SubSeq(dir, 1, Len(dir) - 1), e)} |-> f[d]]

\* fs.rm(dir, {recursive: true, force: true})
RmTree(f, dir) == [d \in {e \in DOMAIN f : ~IsPrefix(dir, e)} |-> f[d]]

(* ---------------------------------------------------------------------- *)
(* Requests                                                                *)
(* ---------------------------------------------------------------------- *)
\* No run of soffice yet: see ConvertTo.
NoConvertTo == [filterName |-> "", filterArg |-> ""]
IdleRq ==
  [route |-> "none", file |-> NoFile, tmpDir |-> NoDir, working |-> NoFile,
   pdfName |-> "", book |-> << >>, idx |-> 0, key |-> "", filter |-> 0,
   profile |-> NoDir, results |-> << >>, convertTo |-> NoConvertTo]
IdleGh ==
  [hit |-> FALSE, invoked |-> 0, stored |-> FALSE, mkdirs |-> 0,
   writes |-> 0, error |-> "", rm |-> "none", seenAll |-> {}, seenQuiet |-> {},
   sheetFailed |-> 0, sofficeFailed |-> FALSE]

Send(r, status, body) == resp' = [resp EXCEPT ![r] = Append(@, [status |-> status, body |-> body])]

\* The 200 answers recorded for a content: `all` keeps every one (those of
\* the conversions made before the run too), `quiet` only those sent since
\* the last insertion into the cache (an insertion made while sending the
\* answer counts as before it).
BodiesFor(set, content) == {p[2] : p \in {q \in set : q[1] = content}}

\* Start states of the cache: empty, or filled by `fill` earlier
\* conversions of the contents 1..fill, one after the other; with `tie`
\* the first two were stored within the same millisecond.
InitCache(fill, tie) ==
  [i \in 1..fill |->
     [key |-> Sha256Hex(i), buffer |-> Converted("earlier-" \o ToString(i)),
      createdAt |-> IF tie /\ i > 1 THEN i - 1 ELSE i]]

InitCaches ==
  {InitCache(0, FALSE), InitCache(MAX_CACHE_ITEMS - 1, FALSE),
   InitCache(MAX_CACHE_ITEMS, TRUE)}

InitCommon ==
  /\ cache \in InitCaches
  /\ clock = IF Len(cache) = 0 THEN 0 ELSE cache[Len(cache)].createdAt
  /\ fs = << >>
  /\ uuids = 0
  /\ rmFailed = 0
  /\ pc = [r \in Req |-> "idle"]
  /\ rq = [r \in Req |-> IdleRq]
  /\ resp = [r \in Req |-> << >>]
  /\ gh = [r \in Req |-> IdleGh]
  /\ evicted = << >>
  /\ ok200 = [all |-> {<<i, cache[i].buffer>> : i \in 1..Len(cache)},
              quiet |-> {}]

NoInline == [stage |-> "none"]

Init ==
  /\ variant \in Variants
  /\ scope = [slots |-> Req, books |-> {}, uploads |-> Uploads]
  /\ inl = NoInline
  /\ InitCommon

Free(r) == pc[r] = "idle" /\ r \in scope.slots

\* Whether an fs.rm succeeds: it may fail while the run's failures last.
RmOutcomes == IF rmFailed < MaxRmFailures THEN BOOLEAN ELSE {TRUE}

\* Mutant: the catch block takes the error for no Error.
ConvertCatchUnknown(r, message) ==
  /\ Send(r, 500, Text("Convert failed: Unknown conversion error"))
  /\ gh' = [gh EXCEPT ![r].error = message]
  /\ pc' = [pc EXCEPT ![r] = "cleanup"]

\* Mutant: the handler has no catch block: the error leaves the handler
\* through the finally block and nothing is answered.
ConvertCatchEscapes(r, message) ==
  /\ gh' = [gh EXCEPT ![r].error = message]
  /\ pc' = [pc EXCEPT ![r] = "cleanup"]
  /\ UNCHANGED resp

\* The catch block of /convert: error instanceof Error in every case here.
ConvertCatch(r, message) ==
  /\ Send(r, 500, Text("Convert failed: " \o message))
  /\ gh' = [gh EXCEPT ![r].error = message]
  /\ pc' = [pc EXCEPT ![r] = "cleanup"]

(* ---------------------------------------------------------------------- *)
(* The HTML asset inliner of runHtmlExport                                 *)
(* Strings are sequences of characters here: the guard is a startsWith on  *)
(* strings and path.resolve works on the characters of src.                *)
(* ---------------------------------------------------------------------- *)
\* String literals, as sequences of characters.
Str_DATA == <<"d", "a", "t", "a", ":">>  \* data:
Str_HTTP == <<"h", "t", "t", "p", ":">>  \* http:
Str_HTTPS == <<"h", "t", "t", "p", "s", ":">>  \* https:
Str_FILE == <<"f", "i", "l", "e", ":">>  \* file:
Str_SLASH2 == <<"/", "/">>  \* //
Str_PNG == <<".", "p", "n", "g">>  \* .png
Str_JPG == <<".", "j", "p", "g">>  \* .jpg
Str_JPEG == <<".", "j", "p", "e", "g">>  \* .jpeg
Str_GIF == <<".", "g", "i", "f">>  \* .gif
Str_SVG == <<".", "s", "v", "g">>  \* .svg
Str_BMP == <<".", "b", "m", "p">>  \* .bmp
Str_WEBP == <<".", "w", "e", "b", "p">>  \* .webp
Str_IMAGEPNG == <<"i", "m", "a", "g", "e", "/", "p", "n", "g">>  \* image/png
Str_IMAGEJPEG == <<"i", "m", "a", "g", "e", "/", "j", "p", "e", "g">>  \* image/jpeg
Str_IMAGEGIF == <<"i", "m", "a", "g", "e", "/", "g", "i", "f">>  \* image/gif
Str_IMAGESVG == <<"i", "m", "a", "g", "e", "/", "s", "v", "g", "+", "x", "m", "l">>  \* image/svg+xml
Str_IMAGEBMP == <<"i", "m", "a", "g", "e", "/", "b", "m", "p">>  \* image/bmp
Str_IMAGEWEBP == <<"i", "m", "a", "g", "e", "/", "w", "e", "b", "p">>  \* image/webp
Str_OCTET == <<"a", "p", "p", "l", "i", "c", "a", "t", "i", "o", "n", "/", "o", "c", "t", "e", "t", "-", "s", "t", "r", "e", "a", "m">>  \* application/octet-stream
Str_B64 == <<";", "b", "a", "s", "e", "6", "4", ",">>  \* ;base64,

\* String.prototype.toLowerCase, on the letters that occur.
LowerChar(ch) ==
  CASE ch = "D" -> "d" [] ch = "A" -> "a" [] ch = "T" -> "t"
    [] ch = "H" -> "h" [] ch = "P" -> "p" [] ch = "S" -> "s"
    [] ch = "N" -> "n" [] ch = "G" -> "g" [] OTHER -> ch
LowerStr(str) == [i \in 1..Len(str) |-> LowerChar(str[i])]

StartsWith(str, prefix) == IsPrefix(prefix, str)

\* /^(data:|https?:|file:|\/\/)/i.test(src)
IsAbsoluteRef(src) ==
  \E prefix \in {Str_DATA, Str_HTTP, Str_HTTPS, Str_FILE, Str_SLASH2} :
    StartsWith(LowerStr(src), prefix)

\* The segments of a path string, empty ones dropped.
RECURSIVE SplitPath(_, _, _)
SplitPath(str, i, segment) ==
  IF i > Len(str)
    THEN IF segment = << >> THEN << >> ELSE <<segment>>
  ELSE IF str[i] = "/"
    THEN (IF segment = << >> THEN << >> ELSE <<segment>>)
           \o SplitPath(str, i + 1, << >>)
  ELSE SplitPath(str, i + 1, Append(segment, str[i]))

\* path normalisation of "." and "..".
RECURSIVE NormalizeSegs(_, _, _)
NormalizeSegs(segs, i, acc) ==
  IF i > Len(segs) THEN acc
  ELSE IF segs[i] = <<".">> THEN NormalizeSegs(segs, i + 1, acc)
  ELSE IF segs[i] = <<".", ".">>
    THEN NormalizeSegs(segs, i + 1,
                       IF acc = << >> THEN acc ELSE SubSeq(acc, 1, Len(acc) - 1))
  ELSE NormalizeSegs(segs, i + 1, Append(acc, segs[i]))

RECURSIVE JoinSegs(_, _)
JoinSegs(segs, i) ==
  IF i > Len(segs) THEN << >> ELSE <<"/">> \o segs[i] \o JoinSegs(segs, i + 1)
PathString(segs) == IF segs = << >> THEN <<"/">> ELSE JoinSegs(segs, 1)

\* path.resolve(base, p) for an absolute base.
PathResolve(base, p) ==
  LET from == IF Len(p) > 0 /\ p[1] = "/" THEN << >> ELSE SplitPath(base, 1, << >>)
  IN  PathString(NormalizeSegs(from \o SplitPath(p, 1, << >>), 1, << >>))

\* assetPath.startsWith(normalizedOutDir)
InsideOutDir(assetPath, normalizedOutDir) ==
  StartsWith(assetPath, normalizedOutDir)

\* path.extname of a path string, lower-cased.
RECURSIVE LastIndexOf(_, _, _)
LastIndexOf(str, ch, i) ==
  IF i = 0 THEN 0 ELSE IF str[i] = ch THEN i ELSE LastIndexOf(str, ch, i - 1)
ExtNameLower(pathStr) ==
  LET slash == LastIndexOf(pathStr, "/", Len(pathStr))
      name == SubSeq(pathStr, slash + 1, Len(pathStr))
      dot == LastIndexOf(name, ".", Len(name))
  IN  IF dot <= 1 THEN << >> ELSE LowerStr(SubSeq(name, dot, Len(name)))

guessMimeType(filePath) ==
  LET ext == ExtNameLower(filePath) IN
  CASE ext = Str_PNG -> Str_IMAGEPNG
    [] ext \in {Str_JPG, Str_JPEG} -> Str_IMAGEJPEG
    [] ext = Str_GIF -> Str_IMAGEGIF
    [] ext = Str_SVG -> Str_IMAGESVG
    [] ext = Str_BMP -> Str_IMAGEBMP
    [] ext = Str_WEBP -> Str_IMAGEWEBP
    [] OTHER -> Str_OCTET

\* `data:${mime};base64,${asset.toString("base64")}`; the payload is one
\* element that names the bytes.
DataUri(mime, asset) == Str_DATA \o mime \o Str_B64 \o <<asset>>

\* The document is the sequence of its src="..." values, in order; `files`
\* maps the path strings that can be read to their bytes. The loop over
\* html.matchAll(assetRegex): the transformed document and the paths
\* handed to fs.readFile, in order.
RECURSIVE InlineLoop(_, _, _, _, _, _, _)
InlineLoop(html, i, normalizedOutDir, files, seen, transformed, reads) ==
  IF i > Len(html) THEN [html |-> transformed, reads |-> reads]
  ELSE
    LET src == html[i]
        assetPath == PathResolve(normalizedOutDir, src)
    IN
    IF IsAbsoluteRef(src) \/ src \in seen
      THEN InlineLoop(html, i + 1, normalizedOutDir, files, seen, transformed, reads)
    ELSE IF ~InsideOutDir(assetPath, normalizedOutDir)
      THEN InlineLoop(html, i + 1, normalizedOutDir, files, seen \cup {src},
                      transformed, reads)
    ELSE IF assetPath \in DOMAIN files
      THEN InlineLoop(html, i + 1, normalizedOutDir, files, seen \cup {src},
                      [j \in 1..Len(transformed) |->
                         IF transformed[j] = src
                           THEN DataUri(guessMimeType(assetPath), files[assetPath])
                           ELSE transformed[j]],
                      Append(reads, assetPath))
    ELSE InlineLoop(html, i + 1, normalizedOutDir, files, seen \cup {src},
                    transformed, Append(reads, assetPath))

\* The output directory of the runs of the inliner in this model.
InlOutDir == <<"/", "j", "o", "b", "/", "s", "h", "e", "e", "t", "-", "1">>  \* /job/sheet-1

InlineAssets(html, outDir, files) ==
  InlineLoop(html, 1, PathResolve(<<"/">>, outDir), files, {}, html, << >>)

(* ---------------------------------------------------------------------- *)
(* buildFilterArg and the --convert-to argument of runSoffice              *)
(* ---------------------------------------------------------------------- *)
\* A value of Record<string, boolean | number | string>, with the text a
\* template literal makes of it.
BoolValue(b) == [type |-> "boolean", text |-> IF b THEN "true" ELSE "false"]
NumberValue(n) == [type |-> "number", text |-> ToString(n)]
StringValue(str) == [type |-> "string", text |-> str]

\* filterOptions: left out by the caller, or an object with its properties
\* in the order written.
NoOptions == [given |-> FALSE, props |-> << >>]
Options(object) == [given |-> TRUE, props |-> object]

\* Property names that are array indices, with their numeric value.
IsIndexKey(key) == key \in {"1", "2"}
IndexOf(key) == IF key = "1" THEN 1 ELSE 2

\* The option names and values of the runs.
OptionKeys == {"SinglePageSheets", "ScaleToPagesX", "2", "1"}
OptionValues == {BoolValue(TRUE), NumberValue(1), StringValue("a4")}
FilterNames == {"calc_pdf_Export", "writer_pdf_Export"}

\* An object literal: its properties in the order written, no name twice.
OptionObjects ==
  UNION {{o \in [1..n -> [key : OptionKeys, value : OptionValues]] :
            \A i, j \in 1..n : i # j => o[i].key # o[j].key} : n \in 0..MaxOptions}

\* Object.entries / Object.keys: the index keys in ascending numeric order,
\* then the other keys in the order they were written.
RECURSIVE SortedIndexEntries(_)
SortedIndexEntries(entries) ==
  IF entries = {} THEN << >> ELSE
    LET least == CHOOSE e \in entries :
                   \A d \in entries : IndexOf(e.key) <= IndexOf(d.key)
    IN  <<least>> \o SortedIndexEntries(entries \ {least})

ObjectEntries(object) ==
  SortedIndexEntries({object[i] : i \in {j \in 1..Len(object) : IsIndexKey(object[j].key)}})
    \o SelectSeq(object, LAMBDA e : ~IsIndexKey(e.key))

\* Array.prototype.join(",")
RECURSIVE JoinComma(_)
JoinComma(parts) ==
  IF parts = << >> THEN ""
  ELSE IF Len(parts) = 1 THEN parts[1]
  ELSE parts[1] \o "," \o JoinComma(Tail(parts))

\* Mutant: every value is put between single quotes.
SerializeEntryQuoted(entry) == "'" \o entry.key \o "':'" \o entry.value.text \o "'"

\* The callback of .map in buildFilterArg.
SerializeEntry(entry) ==
  IF entry.value.type = "string"
    THEN "'" \o entry.key \o "':'" \o entry.value.text \o "'"
    ELSE "'" \o entry.key \o "':" \o entry.value.text

buildFilterArg(filterName, filterOptions) ==
  IF ~filterOptions.given \/ Len(ObjectEntries(filterOptions.props)) = 0
    THEN "pdf:" \o filterName
    ELSE LET entries == ObjectEntries(filterOptions.props)
             serialized == JoinComma([i \in 1..Len(entries) |-> SerializeEntry(entries[i])])
         IN  "pdf:" \o filterName \o ":FilterData={" \o serialized \o "}"

\* filterName and filterOptions of runSoffice for an input of extension
\* ext; the runSoffice of the basic and noext handlers has one fixed filter
\* and no options.
SofficeFilterName(v, ext) ==
  IF v # "full" THEN "writer_pdf_Export"
  ELSE IF ext \in {".xls", ".xlsx", ".ods"} THEN "calc_pdf_Export"
  ELSE IF ext \in {".ppt", ".pptx", ".odp"} THEN "impress_pdf_Export"
  ELSE "writer_pdf_Export"

SofficeFilterOptions(v, ext) ==
  IF v # "full" THEN NoOptions
  ELSE IF ext \in {".xls", ".xlsx", ".ods"} THEN
    Options(<<[key |-> "SinglePageSheets", value |-> BoolValue(TRUE)],
              [key |-> "UseLosslessCompression", value |-> BoolValue(TRUE)],
              [key |-> "ReduceImageResolution", value |-> BoolValue(FALSE)],
              [key |-> "SelectionOnly", value |-> BoolValue(FALSE)],
              [key |-> "ExportNotes", value |-> BoolValue(FALSE)],
              [key |-> "ScaleToPagesX", value |-> NumberValue(1)],
              [key |-> "ScaleToPagesY", value |-> NumberValue(1)]>>)
  ELSE IF ext \in {".ppt", ".pptx", ".odp"} THEN
    Options(<<[key |-> "ExportNotesPages", value |-> BoolValue(FALSE)],
              [key |-> "ExportOnlySelectedSlides", value |-> BoolValue(FALSE)],
              [key |-> "UseLosslessCompression", value |-> BoolValue(TRUE)]>>)
  ELSE IF ext \in {".doc", ".docx", ".odt"} THEN
    Options(<<[key |-> "UseLosslessCompression", value |-> BoolValue(TRUE)],
              [key |-> "ReduceImageResolution", value |-> BoolValue(FALSE)]>>)
  ELSE NoOptions

\* The filter of a run of soffice and the argument after --convert-to.
ConvertTo(v, ext) ==
  [filterName |-> SofficeFilterName(v, ext),
   filterArg |-> buildFilterArg(SofficeFilterName(v, ext), SofficeFilterOptions(v, ext))]

(* ---------------------------------------------------------------------- *)
(* POST /convert                                                           *)
(* ---------------------------------------------------------------------- *)
\* From the start of the handler to its first await (or its return).
ConvertReceive(r) ==
  /\ Free(r)
  /\ \E file \in scope.uploads \cup {NoFile} :
       LET hash == Sha256Hex(file.content)
           start == [IdleRq EXCEPT !.route = "convert", !.file = file]
           seen == [IdleGh EXCEPT
                      !.seenAll = BodiesFor(ok200.all, file.content),
                      !.seenQuiet = BodiesFor(ok200.quiet, file.content)]
       IN
       IF file = NoFile THEN
         /\ resp' = [resp EXCEPT ![r] = <<[status |-> 400, body |-> Text("No file provided")]>>]
         /\ pc' = [pc EXCEPT ![r] = "done"]
         /\ rq' = [rq EXCEPT ![r] = start]
         /\ gh' = [gh EXCEPT ![r] = IdleGh]
         /\ UNCHANGED <<uuids, ok200, cache>>
       ELSE IF variant # "noext" /\ Extension(file) \notin ALLOWED_EXTENSIONS THEN
         /\ resp' = [resp EXCEPT ![r] = <<[status |-> 400, body |-> Text("Unsupported file type. Please upload a document, spreadsheet, or presentation.")]>>]
         /\ pc' = [pc EXCEPT ![r] = "done"]
         /\ rq' = [rq EXCEPT ![r] = start]
         /\ gh' = [gh EXCEPT ![r] = seen]
         /\ UNCHANGED <<uuids, ok200, cache>>
       ELSE IF MapHas(cache, hash) THEN
         /\ cache' = AfterMapGet(cache, hash)
         /\ resp' = [resp EXCEPT ![r] = <<[status |-> 200, body |-> MapGet(cache, hash).buffer]>>]
         /\ pc' = [pc EXCEPT ![r] = "done"]
         /\ rq' = [rq EXCEPT ![r] = start]
         /\ gh' = [gh EXCEPT ![r] = [seen EXCEPT !.hit = TRUE]]
         /\ ok200' = [all |-> ok200.all \cup {<<file.content, MapGet(cache, hash).buffer>>},
                      quiet |-> ok200.quiet \cup {<<file.content, MapGet(cache, hash).buffer>>}]
         /\ UNCHANGED uuids
       ELSE
         /\ cache' = AfterMapGet(cache, hash)
         /\ uuids' = uuids + 1
         /\ resp' = [resp EXCEPT ![r] = << >>]
         /\ pc' = [pc EXCEPT ![r] = "mkdir"]
         /\ rq' = [rq EXCEPT ![r] = [start EXCEPT !.tmpDir = ConvertTmpDir(Uuid(uuids + 1))]]
         /\ gh' = [gh EXCEPT ![r] = seen]
         /\ UNCHANGED ok200
  /\ UNCHANGED <<variant, scope, inl, rmFailed, clock, fs, evicted>>

\* normalizeExcelBuffer: the bytes returned, or Thrown when XLSX.read or
\* XLSX.write throws (`parses` is whether the library accepts the bytes).
Thrown == [kind |-> "thrown"]
normalizeExcelBuffer(buffer, extension, parses) ==
  IF extension \notin XLSX_NORMALIZE_EXTENSIONS THEN buffer
  ELSE IF parses THEN [kind |-> "normalized", of |-> buffer.of]
  ELSE Thrown

\* Mutant: the handler normalizes whatever the extension.
WorkingBufferAnyExtension(v, file, parses) ==
  IF v = "full" /\ parses
    THEN [kind |-> "normalized", of |-> file.content]
    ELSE InputBytes(file.content)

\* workingBuffer of the handler (only the full variant normalizes).
WorkingBuffer(v, file, parses) ==
  LET buffer == InputBytes(file.content)
      normalized == normalizeExcelBuffer(buffer, Extension(file), parses)
  IN  IF v = "full" /\ Extension(file) \in XLSX_NORMALIZE_EXTENSIONS
             /\ normalized # Thrown
        THEN normalized
        ELSE buffer

\* Mutant: the error of normalizeExcelBuffer reaches the catch block of the
\* handler.
ConvertMkdirNormalizeThrows(r) ==
  /\ pc[r] = "mkdir"
  /\ \E done \in BOOLEAN, parses \in BOOLEAN :
       IF ~done THEN
         /\ ConvertCatch(r, "EACCES: permission denied, mkdir")
         /\ UNCHANGED <<fs, rq>>
       ELSE IF /\ variant = "full" /\ ~parses
               /\ Extension(rq[r].file) \in XLSX_NORMALIZE_EXTENSIONS THEN
         /\ fs' = Mkdir(fs, rq[r].tmpDir)
         /\ ConvertCatch(r, "File is password-protected")
         /\ UNCHANGED rq
       ELSE
         /\ fs' = Mkdir(fs, rq[r].tmpDir)
         /\ rq' = [rq EXCEPT ![r].working = WorkingBuffer(variant, rq[r].file, parses)]
         /\ gh' = [gh EXCEPT ![r].mkdirs = @ + 1]
         /\ pc' = [pc EXCEPT ![r] = "write"]
         /\ UNCHANGED resp
  /\ UNCHANGED <<variant, scope, inl, rmFailed, cache, clock, uuids, evicted, ok200>>

\* await ensureTmpDir(tmpDir) settles; then the code up to fs.writeFile.
ConvertMkdir(r) ==
  /\ pc[r] = "mkdir"
  /\ \E done \in BOOLEAN, parses \in BOOLEAN :
       IF done THEN
         /\ fs' = Mkdir(fs, rq[r].tmpDir)
         /\ rq' = [rq EXCEPT ![r].working = WorkingBuffer(variant, rq[r].file, parses)]
         /\ gh' = [gh EXCEPT ![r].mkdirs = @ + 1]
         /\ pc' = [pc EXCEPT ![r] = "write"]
         /\ UNCHANGED resp
       ELSE
         /\ ConvertCatch(r, "EACCES: permission denied, mkdir")
         /\ UNCHANGED <<fs, rq>>
  /\ UNCHANGED <<variant, scope, inl, rmFailed, cache, clock, uuids, evicted, ok200>>

\* Mutant: fs.writeFile is not awaited, soffice starts before the file is
\* there.
ConvertWriteNotAwaited(r) ==
  /\ pc[r] = "write"
  /\ gh' = [gh EXCEPT ![r].writes = @ + 1, ![r].invoked = @ + 1]
  /\ pc' = [pc EXCEPT ![r] = "soffice"]
  /\ UNCHANGED <<variant, scope, inl, rmFailed, cache, clock, fs, uuids, rq, resp,
                 evicted, ok200>>

\* await fs.writeFile(inputPath, workingBuffer) settles; runSoffice starts.
ConvertWrite(r) ==
  /\ pc[r] = "write"
  /\ \E done \in BOOLEAN :
       IF done THEN
         /\ fs' = WriteFile(fs, rq[r].tmpDir, OriginalName(rq[r].file), rq[r].working)
         /\ rq' = [rq EXCEPT ![r].convertTo = ConvertTo(variant, Extension(rq[r].file))]
         /\ gh' = [gh EXCEPT ![r].writes = @ + 1, ![r].invoked = @ + 1]
         /\ pc' = [pc EXCEPT ![r] = "soffice"]
         /\ UNCHANGED resp
       ELSE
         /\ ConvertCatch(r, "ENOSPC: no space left on device, write")
         /\ UNCHANGED <<fs, rq>>
  /\ UNCHANGED <<variant, scope, inl, rmFailed, cache, clock, uuids, evicted, ok200>>

\* What a run of soffice that exits with 0 leaves in the output directory:
\* the PDF under the expected name, a PDF under another name, or nothing.
SofficeOutputs == {"expected", "other", "nothing"}
OtherPdfName == "OUT.PDF"

SofficeWrites(f, dir, file, output) ==
  CASE output = "expected" ->
         WriteFile(f, dir, ExpectedPdfName(file), Converted(dir[Len(dir)]))
    [] output = "other" ->
         WriteFile(f, dir, OtherPdfName, Converted(dir[Len(dir)]))
    [] OTHER -> f

\* The execFile callback of runSoffice: resolve on exit code 0, reject on
\* a non-zero exit, the timeout or a spawn failure.
SofficeErrors == {"Command failed: soffice --headless --nologo"}

\* Which handlers locate the output with resolvePdfPath.
UsesResolvePdfPath(v) == v # "noext"

ConvertSofficeExit(r) ==
  /\ pc[r] = "soffice"
  /\ \/ \E output \in SofficeOutputs :
          /\ fs' = SofficeWrites(fs, rq[r].tmpDir, rq[r].file, output)
          /\ IF UsesResolvePdfPath(variant)
               THEN /\ pc' = [pc EXCEPT ![r] = "locate"]
                    /\ UNCHANGED rq
               ELSE /\ pc' = [pc EXCEPT ![r] = "read"]
                    /\ rq' = [rq EXCEPT ![r].pdfName = ExpectedPdfName(rq[r].file)]
          /\ UNCHANGED <<resp, gh>>
     \/ \E message \in SofficeErrors :
          /\ ConvertCatch(r, message)
          /\ UNCHANGED <<fs, rq>>
  /\ UNCHANGED <<variant, scope, inl, rmFailed, cache, clock, uuids, evicted, ok200>>

\* entries.filter(entry => entry.toLowerCase().endsWith(".pdf")): the names
\* that can occur in a workspace are the input, the expected and the other.
EndsWithPdf(name, file) ==
  \/ name = ExpectedPdfName(file)
  \/ name = OtherPdfName
  \/ (name = OriginalName(file) /\ Extension(file) = ".pdf")

\* resolvePdfPath: the names it can return (readdir order is the file
\* system's), {} when it throws "Converted PDF not found".
resolvePdfPath(f, dir, file) ==
  IF FileExists(f, dir, ExpectedPdfName(file))
    THEN {ExpectedPdfName(file)}
    ELSE {n \in DOMAIN f[dir] : EndsWithPdf(n, file)}

ConvertLocate(r) ==
  /\ pc[r] = "locate"
  /\ LET found == resolvePdfPath(fs, rq[r].tmpDir, rq[r].file) IN
       IF found = {} THEN
         /\ ConvertCatch(r, "Converted PDF not found")
         /\ UNCHANGED rq
       ELSE
         /\ \E name \in found : rq' = [rq EXCEPT ![r].pdfName = name]
         /\ pc' = [pc EXCEPT ![r] = "read"]
         /\ UNCHANGED <<resp, gh>>
  /\ UNCHANGED <<variant, scope, inl, rmFailed, cache, clock, fs, uuids, evicted, ok200>>

\* await fs.readFile(pdfPath) settles; remember, the 200 answer.
ConvertRead(r) ==
  /\ pc[r] = "read"
  /\ LET dir == rq[r].tmpDir
         file == rq[r].file
         hash == Sha256Hex(file.content)
     IN
     \/ /\ FileExists(fs, dir, rq[r].pdfName)
        /\ \E now \in {clock, clock + 1} :
             LET pdfBuffer == fs[dir][rq[r].pdfName] IN
             /\ clock' = now
             /\ cache' = remember(cache, hash, pdfBuffer, now)
             /\ evicted' = IF EvictKey(cache) # NoKey
                             THEN Append(evicted, EvictKey(cache)) ELSE evicted
             /\ Send(r, 200, pdfBuffer)
             /\ gh' = [gh EXCEPT ![r].stored = TRUE]
             /\ ok200' = [all |-> ok200.all \cup {<<file.content, pdfBuffer>>},
                          quiet |-> {<<file.content, pdfBuffer>>}]
             /\ pc' = [pc EXCEPT ![r] = "cleanup"]
     \/ /\ \E message \in {IF FileExists(fs, dir, rq[r].pdfName)
                             THEN "EIO: i/o error, read"
                             ELSE "ENOENT: no such file or directory, open"} :
             ConvertCatch(r, message)
        /\ UNCHANGED <<cache, clock, evicted, ok200>>
  /\ UNCHANGED <<variant, scope, inl, rmFailed, fs, uuids, rq>>

\* Mutant: the finally block awaits fs.rm without a catch, and its error
\* is answered.
CleanupThrows(r) ==
  /\ pc[r] = "cleanup"
  /\ rq[r].route = "convert"
  /\ \E removed \in RmOutcomes :
       /\ fs' = IF removed THEN RmTree(fs, rq[r].tmpDir) ELSE fs
       /\ rmFailed' = IF removed THEN rmFailed ELSE rmFailed + 1
       /\ gh' = [gh EXCEPT ![r].rm = IF removed THEN "removed" ELSE "failed"]
       /\ IF removed THEN UNCHANGED resp
                     ELSE Send(r, 500, Text("Convert failed: EBUSY: resource busy or locked, rmdir"))
  /\ pc' = [pc EXCEPT ![r] = "done"]
  /\ UNCHANGED <<variant, scope, inl, cache, clock, uuids, rq, evicted, ok200>>

\* The finally block: fs.rm(tmpDir, {recursive, force}).catch(() => {}).
Cleanup(r) ==
  /\ pc[r] = "cleanup"
  /\ rq[r].route = "convert"
  /\ \E removed \in RmOutcomes :
       /\ fs' = IF removed THEN RmTree(fs, rq[r].tmpDir) ELSE fs
       /\ rmFailed' = IF removed THEN rmFailed ELSE rmFailed + 1
       /\ gh' = [gh EXCEPT ![r].rm = IF removed THEN "removed" ELSE "failed"]
  /\ pc' = [pc EXCEPT ![r] = "done"]
  /\ UNCHANGED <<variant, scope, inl, cache, clock, uuids, rq, resp, evicted, ok200>>

Next ==
  \E r \in Req :
    \/ ConvertReceive(r)
    \/ ConvertMkdir(r)
    \/ ConvertWrite(r)
    \/ ConvertSofficeExit(r)
    \/ ConvertLocate(r)
    \/ ConvertRead(r)
    \/ Cleanup(r)

Spec == Init /\ [][Next]_vars

(* ---------------------------------------------------------------------- *)
(* POST /convert-excel (only the full variant has the route)               *)
(* ---------------------------------------------------------------------- *)
ExcelExts == {".xlsx", ".docx"}
ExcelUploads ==
  {[base |-> "book", ext |-> e, content |-> FreshContent(1)] : e \in ExcelExts}

\* path.join("/tmp", "converter-service", "excel", jobId)
ExcelTmpDir(jobId) == <<"tmp", "converter-service", "excel", jobId>>
\* path.join(tmpDir, `sheet-${index + 1}`), k being index + 1
SheetDir(tmpDir, k) == Append(tmpDir, "sheet-" \o ToString(k))
\* Mutant: every call of runHtmlExport uses the one profile directory.
ProfileDirShared(id) == <<"tmp", "converter-service", "lo-profile">>

\* path.join("/tmp", "converter-service", "lo-profile", crypto.randomUUID())
ProfileDir(id) == <<"tmp", "converter-service", "lo-profile", id>>

\* A workbook: SheetNames in order; `parsed` tells whether workbook.Sheets
\* has an entry for the sheet.
SheetNameSet == {"Data", " ", "Data (2)", "__proto__"}
Sheets == [name : SheetNameSet, parsed : BOOLEAN]
AllBooks == UNION {[1..n -> Sheets] : n \in 0..MaxSheets}

\* String.prototype.trim on the sheet names that occur.
Trim(name) == IF name = " " THEN "" ELSE name

\* displayName of the loop, k being index + 1
DisplayName(sheetName, k) ==
  IF sheetName # "" /\ Trim(sheetName) # ""
    THEN sheetName
    ELSE "Sheet " \o ToString(k)

\* The own properties of `results`, in insertion order.
ResultKeys(results) == {results[i].key : i \in 1..Len(results)}

\* results[resultKey] = html on the plain object `results`: the key
\* "__proto__" reaches the setter of Object.prototype, which ignores a
\* string, so no own property is made.
ObjectSet(results, resultKey, html) ==
  IF resultKey = "__proto__"
    THEN results
    ELSE Append(results, [key |-> resultKey, html |-> html])

\* The while loop over Object.prototype.hasOwnProperty.call(results, resultKey).
RECURSIVE KeyLoop(_, _, _, _)
KeyLoop(results, displayName, resultKey, suffix) ==
  IF resultKey \in ResultKeys(results)
    THEN KeyLoop(results, displayName,
                 displayName \o " (" \o ToString(suffix) \o ")", suffix + 1)
    ELSE resultKey

ResultKey(results, displayName) == KeyLoop(results, displayName, displayName, 2)

\* The next index (1-based) at or after `from` that `if (!sheet) continue`
\* lets through; 0 at the end of sheetNames.
NextSheet(book, from) ==
  IF \E i \in from..Len(book) : book[i].parsed
    THEN CHOOSE i \in from..Len(book) :
           book[i].parsed /\ \A j \in from..(i - 1) : ~book[j].parsed
    ELSE 0

Json(fields) == [kind |-> "json", json |-> fields]

\* Mutant: the handler ends in its catch block, without a finally.
ExcelCatchNoFinally(r, message, g) ==
  /\ Send(r, 500, Json([error |-> "Convert Excel failed: " \o message]))
  /\ gh' = [gh EXCEPT ![r] = [g EXCEPT !.error = message]]
  /\ pc' = [pc EXCEPT ![r] = "done"]

\* The catch block of /convert-excel.
\* `g` is the history of r with this step's other entries made.
ExcelCatch(r, message, g) ==
  /\ Send(r, 500, Json([error |-> "Convert Excel failed: " \o message]))
  /\ gh' = [gh EXCEPT ![r] = [g EXCEPT !.error = message]]
  /\ pc' = [pc EXCEPT ![r] = "cleanup"]

\* The top of the for loop from index `from` on, `me` being the handler's
\* locals so far: the next sheet's key and ensureTmpDir(sheetDir), or
\* res.json({sheets: results}) after the last sheet.
ExcelLoop(r, me, from) ==
  LET k == NextSheet(me.book, from) IN
  IF k = 0 THEN
    /\ Send(r, 200, Json([sheets |-> me.results]))
    /\ rq' = [rq EXCEPT ![r] = me]
    /\ pc' = [pc EXCEPT ![r] = "cleanup"]
  ELSE
    /\ rq' = [rq EXCEPT ![r] =
                [me EXCEPT !.idx = k,
                           !.key = ResultKey(me.results, DisplayName(me.book[k].name, k))]]
    /\ pc' = [pc EXCEPT ![r] = "sheetdir"]
    /\ UNCHANGED resp

ExcelReceive(r) ==
  /\ Free(r)
  /\ variant = "full"
  /\ \E file \in ExcelUploads \cup {NoFile} :
       LET start == [IdleRq EXCEPT !.route = "excel", !.file = file] IN
       IF file = NoFile THEN
         /\ Send(r, 400, Text("No file uploaded"))
         /\ pc' = [pc EXCEPT ![r] = "done"]
         /\ rq' = [rq EXCEPT ![r] = start]
         /\ UNCHANGED uuids
       ELSE IF Extension(file) \notin XLSX_NORMALIZE_EXTENSIONS THEN
         /\ Send(r, 400, Text("Unsupported file type. Please upload an Excel file (.xls, .xlsx)."))
         /\ pc' = [pc EXCEPT ![r] = "done"]
         /\ rq' = [rq EXCEPT ![r] = start]
         /\ UNCHANGED uuids
       ELSE
         /\ uuids' = uuids + 1
         /\ rq' = [rq EXCEPT ![r] = [start EXCEPT !.tmpDir = ExcelTmpDir(Uuid(uuids + 1))]]
         /\ pc' = [pc EXCEPT ![r] = "xmkdir"]
         /\ UNCHANGED resp
  /\ UNCHANGED <<variant, scope, inl, rmFailed, cache, clock, fs, gh, evicted, ok200>>

\* await ensureTmpDir(tmpDir) settles; XLSX.read; the empty-workbook check;
\* the loop up to its first await.
ExcelMkdir(r) ==
  /\ pc[r] = "xmkdir"
  /\ \/ /\ ExcelCatch(r, "EACCES: permission denied, mkdir", gh[r])
        /\ UNCHANGED <<fs, rq>>
     \/ /\ fs' = Mkdir(fs, rq[r].tmpDir)
        /\ \/ /\ ExcelCatch(r, "File is password-protected",
                           [gh[r] EXCEPT !.mkdirs = @ + 1])
              /\ UNCHANGED rq
           \/ /\ gh' = [gh EXCEPT ![r].mkdirs = @ + 1]
              /\ \E book \in scope.books :
                   IF Len(book) = 0 THEN
                     /\ Send(r, 400, Text("Workbook does not contain any sheets."))
                     /\ rq' = [rq EXCEPT ![r].book = book]
                     /\ pc' = [pc EXCEPT ![r] = "cleanup"]
                   ELSE ExcelLoop(r, [rq[r] EXCEPT !.book = book], 1)
  /\ UNCHANGED <<variant, scope, inl, rmFailed, cache, clock, uuids, evicted, ok200>>

\* `input.${bookType === "xls" ? "xls" : "xlsx"}`
InputSheetName(extension) == IF extension = ".xls" THEN "input.xls" ELSE "input.xlsx"
\* The file soffice writes for that input with an html filter.
HtmlName == "input.html"
EndsWithHtml(name) == name = HtmlName

\* The filters of convertSheetToHtml, in order.
HtmlFilters ==
  <<"html:calc_html_Web:FilterData={'HTMLWysiwygMode':true,'UseLosslessCompression':true,'ExportNotes':false}",
    "html:XHTML Calc File">>

\* runHtmlExport is called with filter number n: the profile directory is
\* named and ensureTmpDir(profileDir) awaited.
StartExport(r, me, n) ==
  /\ uuids' = uuids + 1
  /\ rq' = [rq EXCEPT ![r] =
              [me EXCEPT !.filter = n, !.profile = ProfileDir(Uuid(uuids + 1))]]
  /\ pc' = [pc EXCEPT ![r] = "profile"]
  /\ UNCHANGED resp

\* await ensureTmpDir(sheetDir), await fs.writeFile(inputFile, sheetBuffer)
\* and the ensureTmpDir of convertSheetToHtml settle; runHtmlExport starts.
ExcelSheetPrepare(r) ==
  /\ pc[r] = "sheetdir"
  /\ LET dir == SheetDir(rq[r].tmpDir, rq[r].idx)
         made == Mkdir(fs, dir)
     IN
     \/ /\ ExcelCatch(r, "EACCES: permission denied, mkdir", gh[r])
        /\ UNCHANGED <<fs, rq, uuids>>
     \/ /\ fs' = made
        /\ ExcelCatch(r, "ENOSPC: no space left on device, write",
                      [gh[r] EXCEPT !.mkdirs = @ + 1])
        /\ UNCHANGED <<rq, uuids>>
     \/ /\ fs' = WriteFile(made, dir, InputSheetName(Extension(rq[r].file)),
                           [kind |-> "sheet", of |-> rq[r].idx])
        /\ gh' = [gh EXCEPT ![r].mkdirs = @ + 1, ![r].writes = @ + 1]
        /\ StartExport(r, rq[r], 1)
  /\ UNCHANGED <<variant, scope, inl, rmFailed, cache, clock, evicted, ok200>>

\* Mutant: a sheet whose last filter failed is left out and the loop goes on.
HtmlFailedSkipsSheet(r, message, f, g) ==
  /\ fs' = f
  /\ IF rq[r].filter < Len(HtmlFilters) THEN
       /\ gh' = [gh EXCEPT ![r] = g]
       /\ StartExport(r, rq[r], rq[r].filter + 1)
     ELSE
       /\ gh' = [gh EXCEPT ![r] = [g EXCEPT !.sheetFailed = rq[r].idx, !.error = message]]
       /\ ExcelLoop(r, rq[r], rq[r].idx + 1)
       /\ UNCHANGED uuids

\* Mutant: after the last filter has failed convertSheetToHtml throws its
\* own Error("Converted HTML not found") in place of lastError.
HtmlFailedNotFound(r, message, f, g) ==
  /\ fs' = f
  /\ IF rq[r].filter < Len(HtmlFilters) THEN
       /\ gh' = [gh EXCEPT ![r] = g]
       /\ StartExport(r, rq[r], rq[r].filter + 1)
     ELSE
       /\ ExcelCatch(r, "Converted HTML not found", [g EXCEPT !.sheetFailed = rq[r].idx])
       /\ UNCHANGED <<rq, uuids>>

\* Mutant: after the last filter has failed the filters are tried again
\* from the first.
HtmlFailedRetries(r, message, f, g) ==
  /\ fs' = f
  /\ gh' = [gh EXCEPT ![r] = g]
  /\ StartExport(r, rq[r], IF rq[r].filter < Len(HtmlFilters)
                             THEN rq[r].filter + 1 ELSE 1)

\* runHtmlExport threw `message`: the catch of convertSheetToHtml, which
\* goes on to the next filter or rethrows the last error into the handler.
\* `f` is the file system and `g` the history left by the failed call.
HtmlFailed(r, message, f, g) ==
  /\ fs' = f
  /\ IF rq[r].filter < Len(HtmlFilters) THEN
       /\ gh' = [gh EXCEPT ![r] = g]
       /\ StartExport(r, rq[r], rq[r].filter + 1)
     ELSE
       /\ ExcelCatch(r, message, [g EXCEPT !.sheetFailed = rq[r].idx])
       /\ UNCHANGED <<rq, uuids>>

RemoveFiles(f, dir, names) ==
  [f EXCEPT ![dir] = [n \in (DOMAIN f[dir]) \ names |-> f[dir][n]]]

\* await ensureTmpDir(profileDir) settles; the .html files of outDir are
\* removed (each fs.rm may fail, silently); soffice is started.
ExcelExportStart(r) ==
  /\ pc[r] = "profile"
  /\ LET dir == SheetDir(rq[r].tmpDir, rq[r].idx)
         stale == {n \in DOMAIN fs[dir] : EndsWithHtml(n)}
     IN
     \/ HtmlFailed(r, "EACCES: permission denied, mkdir", fs, gh[r])
        /\ UNCHANGED rmFailed
     \/ /\ \E removed \in (IF stale = {} THEN {TRUE} ELSE RmOutcomes) :
             /\ fs' = RemoveFiles(Mkdir(fs, rq[r].profile), dir,
                                  IF removed THEN stale ELSE {})
             /\ rmFailed' = IF removed THEN rmFailed ELSE rmFailed + 1
        /\ gh' = [gh EXCEPT ![r].invoked = @ + 1]
        /\ pc' = [pc EXCEPT ![r] = "html"]
        /\ UNCHANGED <<rq, resp, uuids>>
  /\ UNCHANGED <<variant, scope, inl, cache, clock, evicted, ok200>>

\* The execFile callback of runHtmlExport; the .html file is looked up,
\* read and its assets inlined; the finally block removes the profile
\* (silently failing or not); convertSheetToHtml returns into the loop.
ExcelExportExit(r) ==
  /\ pc[r] = "html"
  /\ LET dir == SheetDir(rq[r].tmpDir, rq[r].idx)
         written == WriteFile(fs, dir, HtmlName,
                              [kind |-> "html", by |-> rq[r].profile, srcs |-> << >>])
     IN
     \E after \in {fs, written}, removed \in RmOutcomes :
       LET left == IF removed THEN RmTree(after, rq[r].profile) ELSE after
           found == {n \in DOMAIN after[dir] : EndsWithHtml(n)}
           failed == gh[r]
       IN
       \/ HtmlFailed(r, "Command failed: soffice --headless --nologo", left,
                     [failed EXCEPT !.sofficeFailed = TRUE])
       \/ /\ found = {}
          /\ HtmlFailed(r, "Converted HTML not found", left, failed)
       \/ /\ found # {}
          /\ HtmlFailed(r, "EIO: i/o error, read", left, failed)
       \/ /\ found # {}
          /\ \E name \in found :
               LET html == after[dir][name]
                   \* the sheets here carry no images: no src to resolve
                   transformed ==
                     [html EXCEPT !.srcs = InlineAssets(@, InlOutDir, << >>).html]
                   me == [rq[r] EXCEPT
                            !.results = ObjectSet(@, rq[r].key, transformed)]
               IN ExcelLoop(r, me, rq[r].idx + 1)
          /\ fs' = left
          /\ UNCHANGED <<gh, uuids>>
       /\ rmFailed' = IF removed THEN rmFailed ELSE rmFailed + 1
  /\ UNCHANGED <<variant, scope, inl, cache, clock, evicted, ok200>>

\* The finally block of /convert-excel.
ExcelCleanup(r) ==
  /\ pc[r] = "cleanup"
  /\ rq[r].route = "excel"
  /\ \E removed \in RmOutcomes :
       /\ fs' = IF removed THEN RmTree(fs, rq[r].tmpDir) ELSE fs
       /\ rmFailed' = IF removed THEN rmFailed ELSE rmFailed + 1
       /\ gh' = [gh EXCEPT ![r].rm = IF removed THEN "removed" ELSE "failed"]
  /\ pc' = [pc EXCEPT ![r] = "done"]
  /\ UNCHANGED <<variant, scope, inl, cache, clock, uuids, rq, resp, evicted, ok200>>

\* One request, to either route, on its own: every workbook of at most
\* MaxSheets sheets.
InitOne ==
  /\ variant \in Variants
  /\ scope = [slots |-> {1}, books |-> AllBooks, uploads |-> Uploads]
  /\ inl = NoInline
  /\ InitCommon
  /\ cache = InitCache(MAX_CACHE_ITEMS, TRUE)

NextOne ==
  \E r \in Req :
    \/ ConvertReceive(r)
    \/ ConvertMkdir(r)
    \/ ConvertWrite(r)
    \/ ConvertSofficeExit(r)
    \/ ConvertLocate(r)
    \/ ConvertRead(r)
    \/ Cleanup(r)
    \/ ExcelReceive(r)
    \/ ExcelMkdir(r)
    \/ ExcelSheetPrepare(r)
    \/ ExcelExportStart(r)
    \/ ExcelExportExit(r)
    \/ ExcelCleanup(r)

SpecOne == InitOne /\ [][NextOne]_vars

(* ---------------------------------------------------------------------- *)
(* Claims about the cache and POST /convert                                *)
(* ---------------------------------------------------------------------- *)
Keys(c) == {c[i].key : i \in 1..Len(c)}
Status(r) == resp[r][Len(resp[r])].status
Body(r) == resp[r][Len(resp[r])].body
Answered(r, status) == Len(resp[r]) > 0 /\ Status(r) = status
IsConvert(r) == rq[r].route = "convert"

\* C1: the cache never holds more than MAX_CACHE_ITEMS entries, whatever
\* the interleaving of the requests that call remember.
C1_CacheBounded == Len(cache) <= MAX_CACHE_ITEMS

\* C1 witness: remember has run on a full cache and the cache is full.
C1_Witness == Len(cache) = MAX_CACHE_ITEMS /\ Len(evicted) > 0

\* The first entry, in iteration order, whose createdAt is the smallest.
FirstOldest(c) ==
  CHOOSE i \in 1..Len(c) :
    /\ \A j \in 1..Len(c) : c[i].createdAt <= c[j].createdAt
    /\ \A j \in 1..(i - 1) : c[j].createdAt > c[i].createdAt

\* The step in which request r calls remember.
Remembers(r) == ~gh[r].stored /\ gh'[r].stored

\* C2: a remember on a cache of MAX_CACHE_ITEMS or more entries removes
\* exactly one entry, the first of those with the smallest createdAt, and
\* then inserts; on a smaller cache it removes nothing.
C2_EvictsOldest ==
  [][\A r \in Req :
       Remembers(r) =>
         LET hash == Sha256Hex(rq[r].file.content) IN
         IF Len(cache) >= MAX_CACHE_ITEMS
           THEN Keys(cache') =
                  (Keys(cache) \ {cache[FirstOldest(cache)].key}) \cup {hash}
           ELSE Keys(cache') = Keys(cache) \cup {hash}]_vars

\* C2 witness: an eviction has happened among entries that tie on the
\* smallest createdAt.
C2_Witness ==
  /\ Len(evicted) > 0
  /\ evicted[1] = Sha256Hex(1)
  /\ \E i \in 1..Len(cache) : cache[i].createdAt = 1


\* Request r got past the validation of /convert.
PassedValidation(r) == IsConvert(r) /\ ~Answered(r, 400)

\* C3 as stated: a /convert call whose bytes were already answered 200 by
\* an earlier call is a cache hit, gets that call's body and runs no
\* converter.
C3_SecondCallHits ==
  \A r \in Req :
    PassedValidation(r) /\ gh[r].seenAll # {} =>
      /\ gh[r].hit
      /\ gh[r].invoked = 0
      /\ \A b \in gh[r].seenAll : Answered(r, 200) /\ Body(r) = b

\* C3 amended: the same, provided no request has inserted into the cache
\* between the earlier call's answer and this call's lookup.
C3_SecondCallHitsIfQuiet ==
  \A r \in Req :
    PassedValidation(r) /\ gh[r].seenQuiet # {} =>
      /\ gh[r].hit
      /\ gh[r].invoked = 0
      /\ \A b \in gh[r].seenQuiet : Answered(r, 200) /\ Body(r) = b

\* C3 witness: a first call converted and stored its result, the second
\* call with the same bytes was answered from the cache.
C3_Witness ==
  \E r1, r2 \in Req :
    /\ r1 # r2
    /\ gh[r1].stored /\ Answered(r1, 200)
    /\ gh[r2].hit /\ gh[r2].seenQuiet = {Body(r1)}
    /\ rq[r1].file.content = rq[r2].file.content

\* C5: a /convert request without a file, or with an extension outside
\* the allow-list, is answered 400 and creates no directory, writes no
\* file and starts no converter.
C5_RejectedBeforeWork ==
  \A r \in Req :
    IsConvert(r) /\ (rq[r].file = NoFile \/ Extension(rq[r].file) \notin ALLOWED_EXTENSIONS) =>
      /\ Len(resp[r]) = 1 /\ Status(r) = 400
      /\ rq[r].tmpDir = NoDir
      /\ gh[r].mkdirs = 0 /\ gh[r].writes = 0 /\ gh[r].invoked = 0

\* C5 witness: an upload named report.exe was answered 400 with nothing
\* made for it, and the handler has completed.
C5_Witness ==
  \E r \in Req :
    /\ IsConvert(r) /\ pc[r] = "done"
    /\ rq[r].file # NoFile /\ Extension(rq[r].file) = ".exe"
    /\ Len(resp[r]) = 1 /\ Status(r) = 400
    /\ rq[r].tmpDir = NoDir /\ gh[r].mkdirs = 0

\* C7: a failure on the cache-miss path of /convert is answered by exactly
\* one response, 500 "Convert failed: <message>", in a step that leaves
\* the cache alone, by a request that never called remember.
FailedConvert(r) == IsConvert(r) /\ gh[r].error # ""
C7_FailureIs500 ==
  [][\A r \in Req :
       /\ FailedConvert(r)' =>
            /\ resp'[r] = <<[status |-> 500,
                             body |-> Text("Convert failed: " \o gh'[r].error)]>>
            /\ ~gh'[r].stored
       /\ (~FailedConvert(r) /\ FailedConvert(r)') => cache' = cache]_vars

\* C7 witness: every failure of the list has happened, the cache being
\* non-empty then.
C7_Witness ==
  /\ Len(cache) > 0
  /\ \E r \in Req : FailedConvert(r) /\ gh[r].error = "Converted PDF not found"
                     /\ pc[r] = "done"
  /\ \E r \in Req : FailedConvert(r) /\ gh[r].invoked = 0


(* ---------------------------------------------------------------------- *)
(* Claims about the workspaces and POST /convert-excel                     *)
(* ---------------------------------------------------------------------- *)
IsExcel(r) == rq[r].route = "excel"
Completed(r) == pc[r] = "done"
WorkspaceLeft(r) == rq[r].tmpDir # NoDir /\ DirExists(fs, rq[r].tmpDir)

\* C4 as stated: once the handler of a /convert or /convert-excel request
\* has completed, whatever the outcome, the request's workspace directory
\* does not exist.
C4_WorkspaceGone == \A r \in Req : Completed(r) => ~WorkspaceLeft(r)

\* C4 amended: the same, provided the fs.rm of the finally block did not
\* fail (its rejection is swallowed and the handler completes all the same).
C4_WorkspaceGoneUnlessRmFailed ==
  \A r \in Req : Completed(r) /\ gh[r].rm # "failed" => ~WorkspaceLeft(r)

\* C4 witness: a /convert-excel request made its workspace and a sheet
\* directory in it, failed on the sheet and completed with the workspace
\* removed.
C4_Witness ==
  \E r \in Req :
    /\ IsExcel(r) /\ Completed(r)
    /\ gh[r].sheetFailed > 0 /\ gh[r].mkdirs > 1
    /\ gh[r].rm = "removed" /\ ~WorkspaceLeft(r)

EmptyWorkbookAnswer == Text("Workbook does not contain any sheets.")

\* C6: a /convert-excel request whose workbook has no sheets is answered
\* 400 with no workspace directory created for it before.
C6_EmptyWorkbookNoWorkspace ==
  \A r \in Req :
    IsExcel(r) /\ Answered(r, 400) /\ Body(r) = EmptyWorkbookAnswer =>
      gh[r].mkdirs = 0 /\ ~WorkspaceLeft(r)

\* C6 witness: a workbook without sheets was answered 400 and the handler
\* has completed.
C6_Witness ==
  \E r \in Req :
    /\ IsExcel(r) /\ Completed(r) /\ rq[r].book = << >>
    /\ resp[r] = <<[status |-> 400, body |-> EmptyWorkbookAnswer]>>

\* The keys the response is said to have for the first k sheets: the
\* display name, or the display name with the smallest " (n)", n >= 2,
\* that is not one of the keys before.
RECURSIVE SaidKeys(_, _)
SaidKeys(book, k) ==
  IF k = 0 THEN << >> ELSE
    LET before == SaidKeys(book, k - 1)
        used == {before[i] : i \in 1..Len(before)}
        displayName == DisplayName(book[k].name, k)
        Suffixed(n) == displayName \o " (" \o ToString(n) \o ")"
        n == CHOOSE m \in 2..(k + 1) :
               Suffixed(m) \notin used /\ \A l \in 2..(m - 1) : Suffixed(l) \in used
    IN  Append(before, IF displayName \in used THEN Suffixed(n) ELSE displayName)

\* The keys of the sheets mapping of a 200 answer, in order.
AnsweredKeys(r) == [i \in 1..Len(Body(r).json.sheets) |-> Body(r).json.sheets[i].key]

\* C8: the sheets mapping of a 200 answer has one key per sheet of the
\* workbook, the keys are pairwise distinct and the k-th is the sheet's
\* name ("Sheet k" for a blank one), with " (n)" for the smallest unused
\* n >= 2 when the name is already a key.
C8_OneKeyPerSheet ==
  \A r \in Req :
    IsExcel(r) /\ Answered(r, 200) =>
      /\ Len(AnsweredKeys(r)) = Len(rq[r].book)
      /\ \A i, j \in 1..Len(AnsweredKeys(r)) :
           i # j => AnsweredKeys(r)[i] # AnsweredKeys(r)[j]
      /\ AnsweredKeys(r) = SaidKeys(rq[r].book, Len(rq[r].book))

\* C8 witness: two sheets both named "Data" were answered with the keys
\* "Data" and "Data (2)".
C8_Witness ==
  \E r \in Req :
    /\ IsExcel(r) /\ Answered(r, 200)
    /\ Len(rq[r].book) = 2
    /\ rq[r].book[1].name = "Data" /\ rq[r].book[2].name = "Data"
    /\ AnsweredKeys(r) = <<"Data", "Data (2)">>

\* C9: when the conversion of a sheet has failed, the only answer is a
\* 500 with a JSON error (no sheets in it), and from then on no converter
\* is started, no sheet is taken up and no result is added.
C9_SheetFailureAborts ==
  [][\A r \in Req :
       gh'[r].sheetFailed > 0 =>
         /\ resp'[r] = <<[status |-> 500,
                          body |-> Json([error |-> "Convert Excel failed: " \o gh'[r].error])]>>
         /\ rq'[r].results = rq[r].results
         /\ gh[r].sheetFailed > 0 =>
              /\ gh'[r].invoked = gh[r].invoked
              /\ gh'[r].writes = gh[r].writes
              /\ rq'[r].idx = rq[r].idx]_vars

\* C9 witness: the second sheet failed after the first was converted, a
\* third sheet was still to come, and the handler has completed.
C9_Witness ==
  \E r \in Req :
    /\ IsExcel(r) /\ Completed(r)
    /\ gh[r].sheetFailed = 2 /\ Len(rq[r].results) = 1
    /\ Len(rq[r].book) = 3 /\ rq[r].book[3].parsed


(* ---------------------------------------------------------------------- *)
(* Claims about the miss path of POST /convert                             *)
(* ---------------------------------------------------------------------- *)
\* jobId of a request that has a workspace.
JobId(r) == rq[r].tmpDir[Len(rq[r].tmpDir)]

\* The names in the workspace of r, in file system f, that end in .pdf.
PdfNames(f, r) ==
  {n \in DOMAIN f[rq[r].tmpDir] : EndsWithPdf(n, rq[r].file)}

\* The step in which r settles on the output file it will read.
ChoosesOutput(r) == pc[r] \in {"soffice", "locate"} /\ pc'[r] = "read"

\* The step in which r, its converter having exited with success, fails.
FailsAfterSoffice(r) ==
  pc[r] \in {"locate", "read"} /\ gh[r].error = "" /\ gh'[r].error # ""

\* C12: after a successful converter run the output is the file named
\* <input base name>.pdf when the workspace has it, otherwise a file of
\* the workspace whose name ends in .pdf, and without any such file the
\* request fails with "Converted PDF not found" (500).
C12_OutputChoice ==
  [][\A r \in Req :
       /\ ChoosesOutput(r) =>
            IF FileExists(fs', rq[r].tmpDir, ExpectedPdfName(rq[r].file))
              THEN rq'[r].pdfName = ExpectedPdfName(rq[r].file)
              ELSE rq'[r].pdfName \in PdfNames(fs', r)
       /\ FailsAfterSoffice(r) /\ PdfNames(fs, r) = {} =>
            /\ gh'[r].error = "Converted PDF not found"
            /\ resp'[r] = <<[status |-> 500,
                             body |-> Text("Convert failed: Converted PDF not found")]>>]_vars

\* C12 witness: the converter left its PDF under another name, the handler
\* took that file and answered 200 with it.
C12_Witness ==
  \E r \in Req :
    /\ IsConvert(r) /\ Answered(r, 200) /\ gh[r].stored
    /\ rq[r].pdfName = OtherPdfName
    /\ Body(r) = Converted(JobId(r))

\* C13: a miss that ends in 200 returns and stores bytes the converter
\* wrote during this request, never the upload the handler wrote itself.
C13_OutputIsConverted ==
  /\ \A r \in Req :
       IsConvert(r) /\ gh[r].stored =>
         Answered(r, 200) /\ Body(r) = Converted(JobId(r))
  /\ \A i \in 1..Len(cache) : cache[i].buffer.kind = "converted"

\* C13 witness: an upload named report.pdf was converted, the converter
\* wrote report.pdf over it, and the converter's bytes were returned and
\* stored.
C13_Witness ==
  \E r \in Req :
    /\ IsConvert(r) /\ gh[r].stored /\ Extension(rq[r].file) = ".pdf"
    /\ rq[r].pdfName = OriginalName(rq[r].file)
    /\ Body(r) = Converted(JobId(r))
    /\ MapHas(cache, Sha256Hex(rq[r].file.content))
    /\ MapGet(cache, Sha256Hex(rq[r].file.content)).buffer = Body(r)

\* An entry made by one of the conversions that came before the run.
EarlierEntry(entry) ==
  \E i \in 1..MAX_CACHE_ITEMS :
    entry.key = Sha256Hex(i) /\ entry.buffer = Converted("earlier-" \o ToString(i))

\* An entry holding what a request read and returned for its input:
\* `me` are the request's locals, `history` what it did and `answers`
\* what it sent.
EntryOf(entry, me, history, answers) ==
  /\ me.route = "convert" /\ history.stored
  /\ answers = <<[status |-> 200, body |-> entry.buffer]>>
  /\ entry.key = Sha256Hex(me.file.content)

\* C14: every entry of the cache holds, under the hash of its input, the
\* output read by a /convert request that answered 200 (in this run or
\* before it); the cache changes only in the step in which such a request
\* stores what it read, and a request answered 400 or 500 has stored
\* nothing.
C14_EntriesFromConversions ==
  [][/\ \A i \in 1..Len(cache') :
          \/ EarlierEntry(cache'[i])
          \/ \E r \in Req : EntryOf(cache'[i], rq'[r], gh'[r], resp'[r])
     /\ cache' # cache =>
          \E r \in Req :
            /\ Remembers(r)
            /\ MapHas(cache', Sha256Hex(rq[r].file.content))
            /\ EntryOf(MapGet(cache', Sha256Hex(rq[r].file.content)),
                       rq'[r], gh'[r], resp'[r])
     /\ \A r \in Req :
          Answered(r, 400)' \/ Answered(r, 500)' =>
            ~gh'[r].stored /\ (pc'[r] # pc[r] => cache' = cache)]_vars

\* C14 witness: one request stored its output, which the cache holds under
\* the hash of its input, and another was answered 500 and has completed.
C14_Witness ==
  \E r1, r2 \in Req :
    /\ gh[r1].stored /\ MapHas(cache, Sha256Hex(rq[r1].file.content))
    /\ EntryOf(MapGet(cache, Sha256Hex(rq[r1].file.content)),
               rq[r1], gh[r1], resp[r1])
    /\ ~EarlierEntry(MapGet(cache, Sha256Hex(rq[r1].file.content)))
    /\ IsConvert(r2) /\ Answered(r2, 500) /\ pc[r2] = "done"

\* The step in which request r is answered from the cache.
Hits(r) == ~gh[r].hit /\ gh'[r].hit

\* C15: a cache hit changes no entry of the cache (no createdAt either),
\* makes no workspace directory and starts no converter; the request has
\* then completed.
C15_HitHasNoSideEffect ==
  [][\A r \in Req :
       Hits(r) =>
         /\ cache' = cache
         /\ fs' = fs /\ uuids' = uuids
         /\ rq'[r].tmpDir = NoDir
         /\ gh'[r].mkdirs = 0 /\ gh'[r].writes = 0 /\ gh'[r].invoked = 0
         /\ pc'[r] = "done"]_vars

\* C15 witness: a request was answered from a full cache while another
\* request had its workspace on disk.
C15_Witness ==
  \E r1, r2 \in Req :
    /\ gh[r1].hit /\ Answered(r1, 200) /\ pc[r1] = "done"
    /\ Len(cache) = MAX_CACHE_ITEMS
    /\ pc[r2] = "soffice" /\ DirExists(fs, rq[r2].tmpDir)

\* C16: hits do not count for eviction: a remember on a full cache removes
\* the entry that was inserted first (the head of the iteration order),
\* read or not, and the others stay in the order of their insertion.
C16_EvictionByInsertion ==
  [][\A r \in Req :
       Remembers(r) /\ Len(cache) >= MAX_CACHE_ITEMS =>
         LET hash == Sha256Hex(rq[r].file.content) IN
         /\ Keys(cache') = (Keys(cache) \ {cache[1].key}) \cup {hash}
         /\ SelectSeq(cache', LAMBDA e : e.key # hash)
              = SelectSeq(Tail(cache), LAMBDA e : e.key # hash)]_vars

\* C16 witness: the first entry of a full cache was read by a hit and was
\* then evicted by the insertion of a new hash, the entries inserted after
\* it staying.
C16_Witness ==
  \E r1, r2 \in Req :
    /\ gh[r1].hit /\ rq[r1].file.content = 1
    /\ gh[r2].stored /\ rq[r2].file.content # 1
    /\ evicted = <<Sha256Hex(1)>>
    /\ ~MapHas(cache, Sha256Hex(1)) /\ MapHas(cache, Sha256Hex(2))

(* ---------------------------------------------------------------------- *)
(* Two requests at a time, to either route of the full variant, on an      *)
(* empty cache; workbooks of at most one sheet, named Data.                *)
(* ---------------------------------------------------------------------- *)
InitTwo ==
  /\ variant = "full"
  /\ scope = [slots |-> Req,
              books |-> {b \in AllBooks : Len(b) <= 1 /\ \A k \in 1..Len(b) : b[k].name = "Data"},
              uploads |-> Uploads]
  /\ inl = NoInline
  /\ InitCommon
  /\ cache = InitCache(0, FALSE)

NextTwo == NextOne

SpecTwo == InitTwo /\ [][NextTwo]_vars

\* A request that has a workspace and has not completed.
InFlight(r) == pc[r] \notin {"idle", "done"} /\ rq[r].tmpDir # NoDir

\* The directories of file system f in the workspace `dir`, with their files.
TreeOf(f, dir) == [d \in {e \in DOMAIN f : IsPrefix(dir, e)} |-> f[d]]

\* The requests whose handler takes no part in the step.
Bystander(r) ==
  pc'[r] = pc[r] /\ rq'[r] = rq[r] /\ gh'[r] = gh[r] /\ resp'[r] = resp[r]

\* C17: no two requests in flight have the same workspace (nor one inside
\* the other's), and a step of one request, its cleanup among them,
\* leaves the workspace of every other request in flight as it is.
C17_WorkspacesApart ==
  [][/\ \A r1, r2 \in Req :
          r1 # r2 /\ InFlight(r1) /\ InFlight(r2) =>
            ~IsPrefix(rq[r1].tmpDir, rq[r2].tmpDir)
     /\ \A r \in Req :
          InFlight(r) /\ Bystander(r) =>
            TreeOf(fs', rq[r].tmpDir) = TreeOf(fs, rq[r].tmpDir)]_vars

\* C17 witness: a /convert request has removed its workspace and completed
\* while a /convert-excel request is in flight with its sheet file still
\* in its workspace.
C17_Witness ==
  \E r1, r2 \in Req :
    /\ IsConvert(r1) /\ pc[r1] = "done" /\ gh[r1].rm = "removed" /\ gh[r1].writes > 0
    /\ IsExcel(r2) /\ InFlight(r2) /\ pc[r2] = "html"
    /\ FileExists(fs, SheetDir(rq[r2].tmpDir, rq[r2].idx),
                  InputSheetName(Extension(rq[r2].file)))

\* Two requests that uploaded the same bytes.
SameBytes(r1, r2) ==
  /\ r1 # r2 /\ rq[r1].file # NoFile /\ rq[r2].file # NoFile
  /\ rq[r1].file.content = rq[r2].file.content

\* The places of the cache c that hold an entry under a key.
EntriesFor(c, key) == {i \in 1..Len(c) : c[i].key = key}

\* C18: the cache never has two entries under one hash; a request that
\* stores leaves, under its hash, the output it read (so the request that
\* stores last decides); and two requests with the same bytes that both
\* stored both missed, each with one converter run in a workspace of its
\* own, and left one entry.
C18_OverlapLeavesOneEntry ==
  [][/\ \A i, j \in 1..Len(cache') : i # j => cache'[i].key # cache'[j].key
     /\ \A r \in Req :
          Remembers(r) =>
            LET hash == Sha256Hex(rq[r].file.content) IN
            /\ Cardinality(EntriesFor(cache', hash)) = 1
            /\ MapGet(cache', hash).buffer = resp'[r][1].body
     /\ \A r1, r2 \in Req :
          SameBytes(r1, r2)' /\ gh'[r1].stored /\ gh'[r2].stored =>
            /\ ~gh'[r1].hit /\ ~gh'[r2].hit
            /\ gh'[r1].invoked = 1 /\ gh'[r2].invoked = 1
            /\ rq'[r1].tmpDir # NoDir /\ rq'[r1].tmpDir # rq'[r2].tmpDir
            /\ Cardinality(EntriesFor(cache', Sha256Hex(rq'[r1].file.content))) = 1]_vars

\* C18 witness: two requests with the same bytes have both stored and
\* completed, their outputs differ, and the one entry under their hash
\* holds the second request's output.
C18_Witness ==
  \E r1, r2 \in Req :
    /\ SameBytes(r1, r2) /\ gh[r1].stored /\ gh[r2].stored
    /\ pc[r1] = "done" /\ pc[r2] = "done"
    /\ Body(r1) # Body(r2)
    /\ Cardinality(EntriesFor(cache, Sha256Hex(rq[r1].file.content))) = 1
    /\ MapGet(cache, Sha256Hex(rq[r1].file.content)).buffer = Body(r2)

\* Request r goes from one place of its handler to another.
Moves(r, from, to) == pc[r] \in from /\ pc'[r] = to

\* The order of the miss path of /convert, step by step: what has happened
\* when the handler of r reaches each place.
StepsInOrder(r) ==
  /\ pc'[r] = "mkdir" /\ pc[r] # "mkdir" =>
       /\ Moves(r, {"idle"}, "mkdir")
       /\ ~DirExists(fs', rq'[r].tmpDir) /\ gh'[r].mkdirs = 0
  /\ pc'[r] = "write" /\ pc[r] # "write" =>
       /\ Moves(r, {"mkdir"}, "write")
       /\ DirExists(fs', rq[r].tmpDir) /\ gh'[r].mkdirs = 1 /\ gh'[r].writes = 0
  /\ pc'[r] = "soffice" /\ pc[r] # "soffice" =>
       /\ Moves(r, {"write"}, "soffice")
       /\ FileExists(fs', rq[r].tmpDir, OriginalName(rq[r].file))
       /\ gh'[r].writes = 1 /\ gh[r].invoked = 0 /\ gh'[r].invoked = 1
  /\ pc'[r] = "locate" /\ pc[r] # "locate" => Moves(r, {"soffice"}, "locate")
  /\ pc'[r] = "read" /\ pc[r] # "read" =>
       /\ Moves(r, {"soffice", "locate"}, "read")
       /\ rq'[r].pdfName # "" /\ ~gh'[r].stored /\ resp'[r] = << >>
  /\ Remembers(r) =>
       /\ Moves(r, {"read"}, "cleanup")
       /\ FileExists(fs, rq[r].tmpDir, rq[r].pdfName)
       /\ gh[r].invoked = 1 /\ resp[r] = << >>
       /\ MapHas(cache', Sha256Hex(rq[r].file.content))
       /\ resp'[r] = <<[status |-> 200, body |-> fs[rq[r].tmpDir][rq[r].pdfName]]>>
       /\ DirExists(fs', rq[r].tmpDir) /\ gh'[r].rm = "none"
  /\ pc'[r] = "done" /\ gh'[r].stored =>
       /\ pc[r] = "done" \/ Moves(r, {"cleanup"}, "done")
       /\ gh'[r].mkdirs = 1 /\ gh'[r].writes = 1 /\ gh'[r].invoked = 1
       /\ gh'[r].rm # "none"

\* C19 as stated: on the miss path of /convert the workspace is created,
\* the input written, the converter run, the output located and read, the
\* result stored, the answer sent and the workspace removed, in this
\* order and none left out on success.
C19_StepsThenRemoved ==
  [][\A r \in Req :
       IsConvert(r)' =>
         /\ StepsInOrder(r)
         /\ pc'[r] = "done" /\ gh'[r].stored => ~DirExists(fs', rq'[r].tmpDir)]_vars

\* C19 amended: the same, the last step being the call of fs.rm on the
\* workspace, which removes it unless the call fails (the failure is
\* swallowed).
C19_StepsThenRemoval ==
  [][\A r \in Req :
       IsConvert(r)' =>
         /\ StepsInOrder(r)
         /\ pc'[r] = "done" /\ gh'[r].stored /\ gh'[r].rm = "removed" =>
              ~DirExists(fs', rq'[r].tmpDir)]_vars

\* C19 witness: a request went through the whole miss path, was answered
\* 200 and has removed its workspace.
C19_Witness ==
  \E r \in Req :
    /\ IsConvert(r) /\ pc[r] = "done" /\ gh[r].stored /\ Answered(r, 200)
    /\ gh[r].mkdirs = 1 /\ gh[r].writes = 1 /\ gh[r].invoked = 1
    /\ gh[r].rm = "removed" /\ ~DirExists(fs, rq[r].tmpDir)
    /\ MapHas(cache, Sha256Hex(rq[r].file.content))

(* ---------------------------------------------------------------------- *)
(* One request to POST /convert with each file of AllUploads, on an empty  *)
(* cache.                                                                  *)
(* ---------------------------------------------------------------------- *)
InitExts ==
  /\ variant \in Variants
  /\ scope = [slots |-> {1}, books |-> {}, uploads |-> AllUploads]
  /\ inl = NoInline
  /\ InitCommon
  /\ cache = InitCache(0, FALSE)

NextExts == Next

SpecExts == InitExts /\ [][NextExts]_vars

\* normalizeExcelBuffer was called for request r and threw: the handler of
\* the full variant has its workingBuffer still at the upload's bytes.
NormalizationThrew(r) ==
  /\ IsConvert(r) /\ variant = "full" /\ rq[r].file # NoFile
  /\ Extension(rq[r].file) \in XLSX_NORMALIZE_EXTENSIONS
  /\ rq[r].working = InputBytes(rq[r].file.content)

\* The file written for request r in file system f.
InputWritten(f, r) == f[rq[r].tmpDir][OriginalName(rq[r].file)]

\* C25: a failure of normalizeExcelBuffer never aborts a /convert request:
\* once the workspace is made the handler goes on to fs.writeFile without
\* answering, whether the normalization succeeded or threw; after a throw
\* it writes the uploaded bytes and starts the converter, and any answer
\* is sent by a later step.
C25_NormalizationFailureGoesOn ==
  [][\A r \in Req : IsConvert(r) =>
       /\ pc[r] = "mkdir" /\ DirExists(fs', rq[r].tmpDir) =>
            /\ pc'[r] = "write"
            /\ resp'[r] = resp[r]
            /\ gh'[r].error = ""
            /\ rq'[r].working.of = rq[r].file.content
       /\ NormalizationThrew(r) /\ pc[r] = "write" /\ pc'[r] = "soffice" =>
            /\ InputWritten(fs', r) = InputBytes(rq[r].file.content)
            /\ gh'[r].invoked = gh[r].invoked + 1
       /\ NormalizationThrew(r) /\ resp'[r] # resp[r] =>
            pc[r] \in {"write", "soffice", "locate", "read"}]_vars

\* C25 witness: report.xlsx could not be normalized, was converted from
\* the uploaded bytes and answered 200.
C25_Witness ==
  \E r \in Req :
    /\ NormalizationThrew(r) /\ Completed(r) /\ Answered(r, 200)
    /\ gh[r].stored /\ gh[r].invoked = 1 /\ rq[r].file.ext = ".xlsx"

\* C26: normalizeExcelBuffer changes the bytes only of the uploads whose
\* extension is in XLSX_NORMALIZE_EXTENSIONS; for every other extension the
\* bytes written to the workspace, which the converter is started on, are
\* the uploaded bytes.
C26_OtherFormatsPassThrough ==
  [][\A r \in Req : IsConvert(r) /\ pc[r] = "write" /\ pc'[r] = "soffice" =>
       /\ InputWritten(fs', r) = rq[r].working
       /\ rq[r].working # InputBytes(rq[r].file.content) =>
            Extension(rq[r].file) \in XLSX_NORMALIZE_EXTENSIONS
       /\ Extension(rq[r].file) \notin XLSX_NORMALIZE_EXTENSIONS =>
            InputWritten(fs', r) = InputBytes(rq[r].file.content)]_vars

\* C26 witness: report.ods, a spreadsheet the normalizer does not take, has
\* gone to the converter with its uploaded bytes in the full variant, and
\* was answered 200.
C26_Witness ==
  \E r \in Req :
    /\ IsConvert(r) /\ variant = "full" /\ rq[r].file # NoFile
    /\ rq[r].file.ext = ".ods"
    /\ rq[r].working = InputBytes(rq[r].file.content)
    /\ Completed(r) /\ Answered(r, 200) /\ gh[r].invoked = 1

\* The filter of each document category.
CategoryFilter(ext) ==
  IF ext \in {".xls", ".xlsx", ".ods"} THEN "calc_pdf_Export"
  ELSE IF ext \in {".ppt", ".pptx", ".odp"} THEN "impress_pdf_Export"
  ELSE "writer_pdf_Export"

\* C27: in every /convert handler the filter soffice is run with is that of
\* the category of the upload's extension: calc_pdf_Export for the
\* spreadsheets, impress_pdf_Export for the presentations and
\* writer_pdf_Export for every other allowed extension.
C27_FilterByCategory ==
  \A r \in Req :
    IsConvert(r) /\ gh[r].invoked > 0 /\ Extension(rq[r].file) \in ALLOWED_EXTENSIONS =>
      rq[r].convertTo.filterName = CategoryFilter(Extension(rq[r].file))

\* C27 witness: the basic handler has run soffice on report.xlsx with the
\* writer filter.
C27_Witness ==
  \E r \in Req :
    /\ IsConvert(r) /\ variant = "basic" /\ gh[r].invoked = 1
    /\ rq[r].file.ext = ".xlsx"
    /\ rq[r].convertTo.filterArg = "pdf:writer_pdf_Export"

(* ---------------------------------------------------------------------- *)
(* Claims about re-attempts                                                *)
(* ---------------------------------------------------------------------- *)
\* A converter invocation made for request r has failed: execFile called
\* back with an error (runSoffice rejects, runHtmlExport's exec rejects).
InvocationFailed(r) ==
  IF IsExcel(r) THEN gh[r].sofficeFailed ELSE gh[r].error \in SofficeErrors

\* The step starts the converter for request r.
Invokes(r) == gh'[r].invoked > gh[r].invoked

\* C20 as stated: once a converter invocation made on behalf of a request
\* has failed, that request makes no further converter invocation, on
\* /convert and on /convert-excel alike.
C20_NoReattempt ==
  [][\A r \in Req : InvocationFailed(r) => ~Invokes(r)]_vars

\* C20, amended: a /convert request makes at most one converter invocation
\* and none after a failure.  A /convert-excel request whose invocation
\* for a sheet failed invokes the converter again only with the filters of
\* convertSheetToHtml that are left for that sheet and, when one of them
\* succeeds, for the later sheets: never more than Len(HtmlFilters) times
\* per sheet, never with the same filter twice for one sheet, and never
\* after the last filter has failed for a sheet.
C20_NoReattemptButFallback ==
  [][\A r \in Req :
       /\ IsConvert(r) /\ InvocationFailed(r) => ~Invokes(r)
       /\ rq'[r].route = "convert" => gh'[r].invoked <= 1
       /\ IsExcel(r) /\ gh[r].sheetFailed > 0 => ~Invokes(r)
       /\ IsExcel(r) /\ Invokes(r) =>
            /\ gh'[r].invoked = gh[r].invoked + 1
            /\ rq[r].filter \in 1..Len(HtmlFilters)
            /\ gh'[r].invoked <= Len(HtmlFilters) * (rq[r].idx - 1) + rq[r].filter]_vars

\* C20 witness: a /convert-excel request was answered 200 although an
\* invocation of the converter had failed for it: the fallback filter was
\* run for the same sheet.
C20_Witness ==
  \E r \in Req :
    /\ IsExcel(r) /\ Completed(r) /\ Answered(r, 200)
    /\ gh[r].sofficeFailed /\ gh[r].sheetFailed = 0
    /\ Len(rq[r].book) = 1 /\ gh[r].invoked = 2

(* ---------------------------------------------------------------------- *)
(* Claims about convertSheetToHtml and runHtmlExport                       *)
(* ---------------------------------------------------------------------- *)
\* The step starts a call of runHtmlExport for request r.
StartsExport(r) ==
  /\ pc'[r] = "profile"
  /\ pc[r] # "profile" \/ rq'[r].filter # rq[r].filter

\* The step ends a call of runHtmlExport for request r with a result.
ExportReturns(r) ==
  /\ pc[r] = "html"
  /\ pc'[r] = "sheetdir" \/ (pc'[r] = "cleanup" /\ gh'[r].sheetFailed = 0)

\* The errors the call of runHtmlExport that ends in this step can have
\* thrown: that of ensureTmpDir(profileDir) before soffice is started; after
\* it that of execFile, of the lookup when outDir holds no .html file, of
\* fs.readFile when it holds one.
AttemptErrors(r) ==
  LET dir == SheetDir(rq[r].tmpDir, rq[r].idx) IN
  IF pc[r] = "profile"
    THEN {"EACCES: permission denied, mkdir"}
    ELSE {"Command failed: soffice --headless --nologo"}
         \cup (IF \E n \in DOMAIN fs'[dir] : EndsWithHtml(n)
                 THEN {"EIO: i/o error, read"}
                 ELSE {"Converted HTML not found"})

\* C21: convertSheetToHtml tries the filters of HtmlFilters in their order:
\* a call of runHtmlExport is made with the first filter for a new sheet,
\* or with the next filter right after the call with the filter before it
\* has failed for the same sheet; a call that returns a result is followed
\* by no call for that sheet; and when the call with the last filter fails
\* the request is answered with the error of that call.
C21_FiltersInOrder ==
  [][\A r \in Req : IsExcel(r) =>
       /\ StartsExport(r) =>
            \/ pc[r] = "sheetdir" /\ rq'[r].filter = 1
            \/ /\ pc[r] \in {"profile", "html"}
               /\ rq'[r].filter = rq[r].filter + 1
               /\ rq'[r].filter <= Len(HtmlFilters)
               /\ rq'[r].idx = rq[r].idx
               /\ rq'[r].results = rq[r].results
               /\ resp'[r] = resp[r]
       /\ ExportReturns(r) =>
            /\ ~StartsExport(r)
            /\ pc'[r] = "sheetdir" => rq'[r].idx > rq[r].idx
            /\ \/ rq'[r].results = rq[r].results
               \/ rq'[r].results = ObjectSet(rq[r].results, rq[r].key,
                                            rq'[r].results[Len(rq'[r].results)].html)
       /\ gh'[r].sheetFailed > gh[r].sheetFailed =>
            /\ rq[r].filter = Len(HtmlFilters)
            /\ gh'[r].sheetFailed = rq[r].idx
            /\ gh'[r].error \in AttemptErrors(r)
            /\ resp'[r] = Append(resp[r],
                  [status |-> 500,
                   body |-> Json([error |-> "Convert Excel failed: " \o gh'[r].error])])
            /\ pc'[r] = "cleanup"]_vars

\* C21 witness: a one-sheet workbook whose export failed with the first
\* filter in the converter and with the second for want of an HTML file:
\* the answer carries the second error.
C21_Witness ==
  \E r \in Req :
    /\ IsExcel(r) /\ Completed(r) /\ Answered(r, 500)
    /\ Len(rq[r].book) = 1 /\ gh[r].invoked = 2 /\ gh[r].sofficeFailed
    /\ gh[r].sheetFailed = 1 /\ gh[r].error = "Converted HTML not found"

\* A call of runHtmlExport is under way for request r.
InExport(r) == IsExcel(r) /\ pc[r] \in {"profile", "html"}

\* The profile directory of each call is its own: named anew when the call
\* starts, absent until the call makes it, and that of no other call under
\* way.
ProfileFresh(r) ==
  /\ StartsExport(r) =>
       /\ rq'[r].profile # rq[r].profile
       /\ ~DirExists(fs', rq'[r].profile)
  /\ pc[r] = "profile" /\ pc'[r] = "html" =>
       /\ ~DirExists(fs, rq[r].profile)
       /\ DirExists(fs', rq[r].profile)
       /\ \A o \in Req \ {r} : InExport(o) => rq[o].profile # rq[r].profile

\* The step ends a call of runHtmlExport for request r, by a result or by
\* an error.
ExportEnds(r) == InExport(r) /\ pc'[r] # "html"

\* C22 as stated: every call of runHtmlExport has a fresh profile directory
\* of its own, and the directory does not exist when the call has returned
\* or thrown, whatever the outcome.
C22_ProfileGone ==
  [][\A r \in Req : IsExcel(r) =>
       /\ ProfileFresh(r)
       /\ ExportEnds(r) => ~DirExists(fs', rq[r].profile)]_vars

\* C22, amended: every call of runHtmlExport has a fresh profile directory
\* of its own; when the call has returned or thrown the directory does not
\* exist unless the fs.rm of the finally block failed, which the call
\* swallows.
C22_ProfileGoneUnlessRmFailed ==
  [][\A r \in Req : IsExcel(r) =>
       /\ ProfileFresh(r)
       /\ ExportEnds(r) =>
            \/ ~DirExists(fs', rq[r].profile)
            \/ pc[r] = "html" /\ rmFailed' > rmFailed]_vars

\* C22 witness: two requests have each made two calls of runHtmlExport, the
\* first of each failing, and no profile directory is left.
C22_Witness ==
  \A r \in Req :
    /\ IsExcel(r) /\ Completed(r) /\ gh[r].invoked = 2
    /\ rmFailed = 0
    /\ \A d \in DOMAIN fs : ~IsPrefix(<<"tmp", "converter-service", "lo-profile">>, d)

\* The .html files of the output directory of r's sheet in file system f.
HtmlFilesOf(f, r) ==
  LET dir == SheetDir(rq[r].tmpDir, rq[r].idx) IN
  {n \in DOMAIN f[dir] : EndsWithHtml(n)}

\* C23: when runHtmlExport starts the converter the output directory holds
\* no .html file, and the HTML a call returns was written by the converter
\* run of that call, never by an earlier attempt.
C23_HtmlOfThisCall ==
  [][\A r \in Req : IsExcel(r) =>
       /\ pc[r] = "profile" /\ pc'[r] = "html" => HtmlFilesOf(fs', r) = {}
       /\ ExportReturns(r) /\ rq'[r].results # rq[r].results =>
            rq'[r].results[Len(rq'[r].results)].html.by = rq[r].profile]_vars

\* C23 witness: the one sheet of a workbook was answered with the HTML
\* written in the first, failed call of runHtmlExport: the second call
\* could not remove it and its converter wrote nothing.
C23_Witness ==
  \E r \in Req :
    /\ IsExcel(r) /\ Completed(r) /\ Answered(r, 200)
    /\ Len(rq[r].book) = 1 /\ gh[r].invoked = 2 /\ Len(rq[r].results) = 1
    /\ rq[r].results[1].html.by # rq[r].profile

(* ---------------------------------------------------------------------- *)
(* Claims about the answers                                                *)
(* ---------------------------------------------------------------------- *)
\* C28: the removal of the workspace in the finally block, failing or not,
\* leaves the answer of the request as it was (its status, its body, the
\* error it reports) and ends the handler.
C28_RmFailureSwallowed ==
  [][\A r \in Req : pc[r] = "cleanup" /\ pc'[r] # "cleanup" =>
       /\ resp'[r] = resp[r]
       /\ Len(resp[r]) = 1
       /\ gh'[r].error = gh[r].error
       /\ gh'[r].rm \in {"removed", "failed"}
       /\ pc'[r] = "done"]_vars

\* C28 witness: two requests have completed, one answered 200 and one 500,
\* one of them with its workspace left behind by a failed removal.
C28_Witness ==
  \E r, o \in Req :
    /\ Completed(r) /\ Completed(o)
    /\ gh[r].rm = "failed" /\ WorkspaceLeft(r) /\ Answered(r, 500)
    /\ resp[r] = <<[status |-> 500,
                    body |-> Json([error |-> "Convert Excel failed: " \o gh[r].error])]>>
    /\ gh[o].rm = "removed" /\ Answered(o, 200)

\* One request to either route, on an empty cache, with every workbook of
\* at most MaxLiveSheets sheets; every await of a handler under way
\* settles: the promises of fs settle, and execFile calls back when soffice
\* exits or when its timeout ends it.
MaxLiveSheets == 2

InitLive ==
  /\ variant \in Variants
  /\ scope = [slots |-> {1}, books |-> {b \in AllBooks : Len(b) <= MaxLiveSheets},
              uploads |-> Uploads]
  /\ inl = NoInline
  /\ InitCommon
  /\ cache = InitCache(0, FALSE)

NextLive == NextOne

\* The steps of the handler of request r after its start.
Settles(r) ==
  \/ ConvertMkdir(r)
  \/ ConvertWrite(r)
  \/ ConvertSofficeExit(r)
  \/ ConvertLocate(r)
  \/ ConvertRead(r)
  \/ Cleanup(r)
  \/ ExcelMkdir(r)
  \/ ExcelSheetPrepare(r)
  \/ ExcelExportStart(r)
  \/ ExcelExportExit(r)
  \/ ExcelCleanup(r)

SpecLive == InitLive /\ [][NextLive]_vars /\ \A r \in Req : WF_vars(Settles(r))

\* C29: every request to /convert or /convert-excel is answered, exactly
\* once and with status 200, 400 or 500, and its handler ends, when every
\* run of soffice exits or is ended by its timeout: no error leaves a
\* handler unanswered and no request is answered twice.
C29_ExactlyOneAnswer ==
  /\ [](\A r \in Req :
         /\ Len(resp[r]) <= 1
         /\ Len(resp[r]) = 1 => resp[r][1].status \in {200, 400, 500}
         /\ Completed(r) => Len(resp[r]) = 1)
  /\ \A r \in Req : (pc[r] # "idle") ~> (Completed(r) /\ Len(resp[r]) = 1)

\* C29 witness: a /convert-excel request whose converter failed with both
\* filters on the second sheet has completed with the one answer 500.
C29_Witness ==
  \E r \in Req :
    /\ IsExcel(r) /\ Completed(r) /\ gh[r].sheetFailed = 2 /\ gh[r].sofficeFailed
    /\ Len(resp[r]) = 1 /\ resp[r][1].status = 500

(* ---------------------------------------------------------------------- *)
(* The inliner on its own: every document of at most MaxSrcs references    *)
(* over InlSrcs, every set of readable files over InlPaths.                *)
(* ---------------------------------------------------------------------- *)
Src_Local == <<"i", "m", "g", ".", "p", "n", "g">>  \* img.png
Src_DotDotInside == <<"s", "u", "b", "/", ".", ".", "/", "i", "m", "g", ".", "p", "n", "g">>  \* sub/../img.png
Src_Traversal == <<".", ".", "/", ".", ".", "/", "e", "t", "c", "/", "p", "a", "s", "s", "w", "d">>  \* ../../etc/passwd
Src_Sibling == <<".", ".", "/", "s", "h", "e", "e", "t", "-", "1", "0", "/", "i", "m", "g", ".", "p", "n", "g">>  \* ../sheet-10/img.png
Src_Rooted == <<"/", "e", "t", "c", "/", "p", "a", "s", "s", "w", "d">>  \* /etc/passwd
Src_Data == <<"D", "A", "T", "A", ":", "i", "m", "a", "g", "e", "/", "p", "n", "g", ";", "b", "a", "s", "e", "6", "4", ",", "A", "A">>  \* DATA:image/png;base64,AA
Src_Https == <<"h", "t", "t", "p", "s", ":", "/", "/", "h", "/", "a", ".", "p", "n", "g">>  \* https://h/a.png
Src_NoScheme == <<"/", "/", "h", "/", "a", ".", "p", "n", "g">>  \* //h/a.png
Path_Asset == <<"/", "j", "o", "b", "/", "s", "h", "e", "e", "t", "-", "1", "/", "i", "m", "g", ".", "p", "n", "g">>  \* /job/sheet-1/img.png
Path_SiblingAsset == <<"/", "j", "o", "b", "/", "s", "h", "e", "e", "t", "-", "1", "0", "/", "i", "m", "g", ".", "p", "n", "g">>  \* /job/sheet-10/img.png
Path_Passwd == <<"/", "e", "t", "c", "/", "p", "a", "s", "s", "w", "d">>  \* /etc/passwd
InlSrcs ==
  {Src_Local, Src_DotDotInside, Src_Traversal, Src_Sibling,
   Src_Rooted, Src_Data, Src_Https, Src_NoScheme}
InlPaths == {Path_Asset, Path_SiblingAsset, Path_Passwd}
\* The bytes of the file at a path.
BytesAt(pathStr) == [kind |-> "file", at |-> pathStr]

InlDocs == UNION {[1..n -> InlSrcs] : n \in 1..MaxSrcs}

InitInline ==
  /\ variant = "full"
  /\ scope = [slots |-> {}, books |-> {}, uploads |-> {}]
  /\ \E html \in InlDocs, readable \in SUBSET InlPaths :
       inl = [stage |-> "input", html |-> html,
              files |-> [q \in readable |-> BytesAt(q)]]
  /\ cache = << >>
  /\ clock = 0
  /\ fs = << >>
  /\ uuids = 0
  /\ rmFailed = 0
  /\ pc = [r \in Req |-> "idle"]
  /\ rq = [r \in Req |-> IdleRq]
  /\ resp = [r \in Req |-> << >>]
  /\ gh = [r \in Req |-> IdleGh]
  /\ evicted = << >>
  /\ ok200 = [all |-> {}, quiet |-> {}]

InlineRun ==
  /\ inl.stage = "input"
  /\ LET result == InlineAssets(inl.html, InlOutDir, inl.files) IN
       inl' = [stage |-> "done", html |-> inl.html, files |-> inl.files,
               out |-> result.html, reads |-> result.reads]
  /\ UNCHANGED <<variant, scope, cache, clock, fs, uuids, rmFailed, pc, rq,
                 resp, gh, evicted, ok200>>

NextInline == InlineRun

SpecInline == InitInline /\ [][NextInline]_vars

\* A path lies inside a directory when the directory's segments begin it.
LiesInside(pathStr, dirStr) ==
  IsPrefix(SplitPath(dirStr, 1, << >>), SplitPath(pathStr, 1, << >>))

\* C10: a local src that resolves outside the output directory is left
\* unchanged and its file is not read.
C10_NoEscape ==
  inl.stage = "done" =>
    \A i \in 1..Len(inl.html) :
      LET assetPath == PathResolve(InlOutDir, inl.html[i]) IN
      ~IsAbsoluteRef(inl.html[i]) /\ ~LiesInside(assetPath, InlOutDir) =>
        /\ inl.out[i] = inl.html[i]
        /\ \A k \in 1..Len(inl.reads) : inl.reads[k] # assetPath

\* C10 witness: ../../etc/passwd was a src of the document, /etc/passwd was
\* readable, the src was left as it was and the file was not read.
C10_Witness ==
  /\ inl.stage = "done"
  /\ Path_Passwd \in DOMAIN inl.files
  /\ \E i \in 1..Len(inl.html) :
       inl.html[i] = Src_Traversal /\ inl.out[i] = Src_Traversal
  /\ \A k \in 1..Len(inl.reads) : inl.reads[k] # Path_Passwd

\* The src values of a document that are local and resolve to pathStr.
LocalSrcsAt(html, pathStr) ==
  {html[i] : i \in {k \in 1..Len(html) :
                      /\ ~IsAbsoluteRef(html[k])
                      /\ PathResolve(InlOutDir, html[k]) = pathStr}}

\* C24: the inliner's output is its input except that every occurrence of
\* a src that is local, resolves inside the output directory and can be
\* read is replaced by the data URI of its file, the file being read once
\* for each distinct such src; absolute references, references that
\* resolve outside and references whose file cannot be read stay as they
\* are.
C24_OutputAsSaid ==
  inl.stage = "done" =>
    /\ Len(inl.out) = Len(inl.html)
    /\ \A i \in 1..Len(inl.html) :
         LET src == inl.html[i]
             assetPath == PathResolve(InlOutDir, src)
         IN  inl.out[i] =
               IF /\ ~IsAbsoluteRef(src)
                  /\ LiesInside(assetPath, InlOutDir)
                  /\ assetPath \in DOMAIN inl.files
                 THEN DataUri(guessMimeType(assetPath), inl.files[assetPath])
                 ELSE src
    /\ \A pathStr \in DOMAIN inl.files :
         Cardinality({k \in 1..Len(inl.reads) : inl.reads[k] = pathStr})
           = IF LiesInside(pathStr, InlOutDir)
               THEN Cardinality(LocalSrcsAt(inl.html, pathStr))
               ELSE 0

\* C24 witness: the document refers to img.png and to ../sheet-10/img.png,
\* both readable: the first reference became the data URI of its file and
\* so did the second, whose file lies outside the output directory.
C24_Witness ==
  /\ inl.stage = "done"
  /\ inl.html = <<Src_Local, Src_Sibling>>
  /\ {Path_Asset, Path_SiblingAsset} \subseteq DOMAIN inl.files
  /\ inl.out = <<DataUri(Str_IMAGEPNG, BytesAt(Path_Asset)),
                 DataUri(Str_IMAGEPNG, BytesAt(Path_SiblingAsset))>>
  /\ inl.reads = <<Path_Asset, Path_SiblingAsset>>

(* ---------------------------------------------------------------------- *)
(* buildFilterArg on its own: every filter name of FilterNames, options    *)
(* absent or an object of at most MaxOptions properties.                   *)
(* ---------------------------------------------------------------------- *)
InitFilter ==
  /\ variant = "full"
  /\ scope = [slots |-> {}, books |-> {}, uploads |-> {}]
  /\ \E filterName \in FilterNames, filterOptions \in {Options(o) : o \in OptionObjects} \cup {NoOptions} :
       inl = [stage |-> "filter", filterName |-> filterName,
              filterOptions |-> filterOptions]
  /\ cache = << >>
  /\ clock = 0
  /\ fs = << >>
  /\ uuids = 0
  /\ rmFailed = 0
  /\ pc = [r \in Req |-> "idle"]
  /\ rq = [r \in Req |-> IdleRq]
  /\ resp = [r \in Req |-> << >>]
  /\ gh = [r \in Req |-> IdleGh]
  /\ evicted = << >>
  /\ ok200 = [all |-> {}, quiet |-> {}]

FilterRun ==
  /\ inl.stage = "filter"
  /\ inl' = [stage |-> "filtered", filterName |-> inl.filterName,
             filterOptions |-> inl.filterOptions,
             filterArg |-> buildFilterArg(inl.filterName, inl.filterOptions)]
  /\ UNCHANGED <<variant, scope, cache, clock, fs, uuids, rmFailed, pc, rq,
                 resp, gh, evicted, ok200>>

NextFilter == FilterRun

SpecFilter == InitFilter /\ [][NextFilter]_vars

\* What is said of one option: 'key':value, the value between single quotes
\* when it is a string and bare otherwise.
SaidOption(entry) ==
  "'" \o entry.key \o "':" \o
    (IF entry.value.type = "string" THEN "'" \o entry.value.text \o "'"
                                    ELSE entry.value.text)

RECURSIVE SaidOptions(_, _)
SaidOptions(object, i) ==
  IF i > Len(object) THEN ""
  ELSE SaidOption(object[i]) \o (IF i < Len(object) THEN "," ELSE "")
         \o SaidOptions(object, i + 1)

SaidFilterArg(filterName, filterOptions) ==
  IF ~filterOptions.given \/ filterOptions.props = << >>
    THEN "pdf:" \o filterName
    ELSE "pdf:" \o filterName \o ":FilterData={" \o SaidOptions(filterOptions.props, 1) \o "}"

InEntriesOrder(object) ==
  LET IndexAt(n) == {i \in 1..Len(object) : IsIndexKey(object[i].key)
                                             /\ IndexOf(object[i].key) = n}
      indices == {IndexOf(object[i].key) :
                    i \in {j \in 1..Len(object) : IsIndexKey(object[j].key)}}
      RECURSIVE Ascending(_)
      Ascending(from) ==
        IF \A n \in indices : n < from THEN << >>
        ELSE LET n == CHOOSE m \in indices : m >= from /\ \A l \in indices : l >= from => m <= l
             IN  <<object[CHOOSE i \in IndexAt(n) : TRUE]>> \o Ascending(n + 1)
  IN  Ascending(0) \o SelectSeq(object, LAMBDA e : ~IsIndexKey(e.key))

====
